---- MODULE Spec2Model ----
(***************************************************************************)
(* Model of the token session manager of mdsisclienttools                  *)
(* (src/src/mdsisclienttools/auth/TokenManager.py, DeviceFlowManager) and  *)
(* of the stand-alone device-flow poller of src/get_offline_code.py.       *)
(*                                                                         *)
(* Python values are modelled as follows.                                  *)
(*   Optional[X]      a set with at most one element: {} is None           *)
(*   Optional[str]    a string, None_ standing for None                    *)
(*   access token     the two facts jwt.decode looks at: whether the       *)
(*                    signature verifies against the fetched public key,   *)
(*                    and the exp claim                                    *)
(*   JSON payload     a record with one field per key the code reads       *)
(* A handler that talks to the server is a set-valued operator: one        *)
(* outcome per way the server can answer the requests the handler sends.   *)
(***************************************************************************)
EXTENDS Integers, Sequences, FiniteSets, TLC

VARIABLES
    pc,          \* "new" before __init__, "ready" after it returned, "failed" after it raised
    args,        \* the arguments of the constructor call
    public_key,  \* self.public_key
    tokens,      \* self.tokens
    self_stage,  \* self.stage, None_ while it is not assigned
    store,       \* content of the storage backend (file or caller-owned dict)
    now,         \* wall clock, compared with the exp claim
    log,         \* requests, sleeps, validations and store accesses of the last call
    result,      \* how the last call ended
    poll_in,     \* poller harness: the responses the server will give, the interval
    poll_out,    \* poller harness: how the poller ended
    existing_of  \* shared store: the content each manager's update_local_storage has parsed

vars == <<pc, args, public_key, tokens, self_stage, store, now, log, result, poll_in, poll_out,
          existing_of>>

----------------------------------------------------------------------------
(* Bounds *)

MaxTime == 1        \* the clock runs from 0 to MaxTime
MaxPending == 1     \* authorization_pending answers before the terminal one (manager)
TokenLifetime == 0  \* an access token issued at t carries exp = t + TokenLifetime
ServerInterval == 5 \* the poll interval the device endpoint advertises
MaxScript == 3      \* length of a response script (poller harness)
MaxInterval == 2    \* poll intervals 1..MaxInterval (poller harness)
MaxPolls == 3       \* requests of one poll are counted up to MaxPolls

----------------------------------------------------------------------------
(* Values *)

None_ == "None"

Stage == {"TEST", "DEV", "STAGE", "PROD"}

LOCAL_STORAGE_DEFAULT == ".tokens.json"

\* An access token and a pair of tokens (class Tokens).
Access(sig, exp) == [sig |-> sig, exp |-> exp]
Tokens(access_token, refresh_token) ==
    [access_token |-> access_token, refresh_token |-> refresh_token]

\* One event of the log.
Ev(t, v, w, n, p) == [t |-> t, v |-> v, w |-> w, n |-> n, p |-> p]
EvValidate(err) == Ev("validate", err, "", 0, {})
EvRequest(kind, carried) == Ev("request", kind, carried, 0, {})
EvResponse(status, payload) == Ev("response", status, "", 0, {payload})
EvSleep(secs) == Ev("sleep", "", "", secs, {})
EvStore(what) == Ev("store", what, "", 0, {})
\* the read of update_local_storage, with what became of "existing"
EvParse(existing) == Ev("store", "read", IF existing THEN "existing" ELSE "fresh", 0, {})
EvPrint(what, detail) == Ev("print", what, detail, 0, {})
EvCall(name) == Ev("call", name, "", 0, {})
EvExcept(e) == Ev("except", e.type, e.msg \o e.cause, 0, {})

Count(s, P(_)) == Cardinality({i \in 1..Len(s) : P(s[i])})
IsRequest(e) == e.t = "request"
IsSleep(e) == e.t = "sleep"

----------------------------------------------------------------------------
(* JSON payloads of the token endpoint *)

Payload(empty, error, access_token, refresh_token) ==
    [empty |-> empty, error |-> error,
     access_token |-> access_token, refresh_token |-> refresh_token]

EmptyPayload == Payload(TRUE, "", {}, None_)
ErrorPayload(error) == Payload(FALSE, error, {}, None_)
TokenPayload(a, r) == Payload(FALSE, "", {a}, r)
NoAccessPayload(r) == Payload(FALSE, "", {}, r)

PENDING == "authorization_pending"
TerminalErrors == {"expired_token", "invalid_client"}

\* What the server issues at time t: access tokens that verify and access
\* tokens that do not, and a refresh token.
IssuedRefresh == "r1"
IssuedAccess(t) == {Access(TRUE, t + TokenLifetime), Access(FALSE, t + TokenLifetime)}

\* What a 200 answer of the token endpoint can carry at time t.
TokenPayloads(t) ==
    {TokenPayload(a, IssuedRefresh) : a \in IssuedAccess(t)}
    \cup {NoAccessPayload(IssuedRefresh), TokenPayload(Access(TRUE, t + TokenLifetime), None_)}

----------------------------------------------------------------------------
(* The device-flow poller *)

PollOutcome(kind, ret, exc, used, lg) ==
    [kind |-> kind, ret |-> ret, exc |-> exc, used |-> used, log |-> lg]

\* Variant: the poller does not wait before it asks again.
SleepAfterError_NoSleep(lg, interval) == lg

\* TokenManager.py 842-843, get_offline_code.py 97-98: time.sleep(interval)
SleepAfterError(lg, interval) == Append(lg, EvSleep(interval))

\* Variant: the last payload is returned after a terminal error.
AwaitEpilogue_ReturnsPayload(silent, response_data, used, lg) ==
    PollOutcome("return", {response_data}, "", used, lg)

\* Variant: with silent set the failure is raised instead of being returned.
AwaitEpilogue_SilentRaises(silent, response_data, used, lg) ==
    IF silent
    THEN PollOutcome("raise", {}, "AssertionError", used, lg)
    ELSE PollOutcome("return", {}, "", used,
                     Append(lg, EvPrint("Failed due to", response_data.error)))

\* TokenManager.py 848-855: after the loop.
AwaitEpilogue(silent, response_data, used, lg) ==
    PollOutcome("return", {}, "", used,
        IF silent THEN lg ELSE Append(lg, EvPrint("Failed due to", response_data.error)))

\* TokenManager.py 833-846: the loop, from the request number used + 1 on.
RECURSIVE AwaitLoop(_, _, _, _, _, _)
AwaitLoop(script, interval, silent, used, misc_fail, lg) ==
    IF misc_fail
    THEN AwaitEpilogue(silent, script[used], used, lg)
    ELSE IF used >= Len(script)
    THEN PollOutcome("starved", {}, "", used, lg)
    ELSE LET response_data == script[used + 1]
             lg1 == lg \o <<EvRequest("device_code", ""), EvResponse("200", response_data)>>
         IN  IF response_data.empty
             THEN PollOutcome("raise", {}, "AssertionError", used + 1, lg1)
             ELSE IF response_data.error # ""
             THEN AwaitLoop(script, interval, silent, used + 1,
                            response_data.error # PENDING,
                            SleepAfterError(lg1, interval))
             ELSE PollOutcome("return", {response_data}, "", used + 1, lg1)

await_device_auth_flow_completion(script, interval, silent) ==
    AwaitLoop(script, interval, silent, 0, FALSE, <<>>)

\* get_offline_code.py 103-109: after the loop. The loop is left only with
\* misc_fail set, so response_data has an 'error' key and the print succeeds.
ScriptAwaitEpilogue(response_data, used, lg) ==
    PollOutcome("return", {}, "", used,
        Append(lg, EvPrint("Failed due to", response_data.error)))

\* get_offline_code.py 89-101: the loop of the stand-alone script.
RECURSIVE ScriptAwaitLoop(_, _, _, _, _)
ScriptAwaitLoop(script, interval, used, misc_fail, lg) ==
    IF misc_fail
    THEN ScriptAwaitEpilogue(script[used], used, lg)
    ELSE IF used >= Len(script)
    THEN PollOutcome("starved", {}, "", used, lg)
    ELSE LET response_data == script[used + 1]
             lg1 == lg \o <<EvRequest("device_code", ""), EvResponse("200", response_data)>>
         IN  IF response_data.error # ""
             THEN ScriptAwaitLoop(script, interval, used + 1,
                                  response_data.error # PENDING,
                                  SleepAfterError(lg1, interval))
             ELSE PollOutcome("return", {response_data}, "", used + 1, lg1)

script_await_device_auth_flow_completion(script, interval) ==
    ScriptAwaitLoop(script, interval, 0, FALSE, <<>>)

----------------------------------------------------------------------------
(* Exceptions: str(e) is msg followed by cause *)

Exc(type, msg, cause) == [type |-> type, msg |-> msg, cause |-> cause]
NoExc == Exc("", "", "")
Str(e) == e.msg \o e.cause
AssertionError == Exc("AssertionError", "", "")

----------------------------------------------------------------------------
(* The manager: self.tokens, self.public_key, the storage backend, the log *)

Manager(tk, st, key, lg) ==
    [tokens |-> tk, store |-> st, public_key |-> key, stage |-> None_, log |-> lg]
\* TokenManager.py 156: self.stage = Stage[stage]
WithStage(m, s) == [m EXCEPT !.stage = s]
Logged(m, events) == [m EXCEPT !.log = m.log \o events]

\* TokenManager.py 114-128
StorageType(a) == IF a.local_storage_object THEN "OBJECT" ELSE "FILE"

\* Content of the storage backend.
\*   "parsed"      StageTokens.parse_file / parse_obj succeeds and yields stages
\*   "unparsable"  parsing raises; stages keeps the well-formed entries it holds
\*   "missing"     the file does not exist
Store(kind, stages) == [kind |-> kind, stages |-> stages]
NoStages == [s \in {} |-> {}]
AllNone == [s \in Stage |-> {}]

\* TokenManager.py 857-893: "" when jwt.decode accepts the token.
ValidateError(test_tokens, key, t) ==
    IF test_tokens = {} \/ key = None_
    THEN "AssertionError"
    ELSE LET access == (CHOOSE x \in test_tokens : TRUE).access_token
         IN  IF ~access.sig THEN "JWTError"
             ELSE IF access.exp < t THEN "ExpiredSignatureError"
             ELSE ""

ValidationExc(err) ==
    IF err = "" THEN NoExc
    ELSE IF err = "AssertionError" THEN AssertionError
    ELSE Exc(err, err, "")

validate_token(m, tks, t) ==
    LET test_tokens == IF tks # {} THEN tks ELSE m.tokens
        err == ValidateError(test_tokens, m.public_key, t)
    IN  [m |-> Logged(m, <<EvValidate(err)>>), exc |-> ValidationExc(err)]

----------------------------------------------------------------------------
(* Persistence *)

\* Variant: the entries of a content that does not parse are used all the same.
EntryOf_IgnoresParseFailure(st, stage) ==
    IF stage \in DOMAIN st.stages THEN st.stages[stage] ELSE {}

\* Variant: when the stage has no entry, the entry of some other stage is taken.
EntryOf_AnyStage(st, stage) ==
    IF st.kind # "parsed" THEN {}
    ELSE IF stage \in DOMAIN st.stages /\ st.stages[stage] # {} THEN st.stages[stage]
    ELSE UNION {st.stages[s] : s \in DOMAIN st.stages}

\* TokenManager.py 203-231: the entry of the stage, None when the content does
\* not parse or holds nothing for the stage.
EntryOf(st, stage) ==
    IF st.kind = "parsed" /\ stage \in DOMAIN st.stages THEN st.stages[stage] ELSE {}

\* TokenManager.py 359-362, 392-395: tokens.refresh_token = None
StripRefresh(entry) == {Tokens(x.access_token, None_) : x \in entry}

\* Variant: the reset leaves the content of the backend as it is.
reset_storage_KeepsContent(m, a) == Logged(m, <<EvStore("reset")>>)

\* Variant: the reset rewrites the file and leaves a storage object as it is.
reset_storage_FileOnly(m, a) ==
    IF StorageType(a) = "FILE"
    THEN [Logged(m, <<EvStore("reset")>>) EXCEPT !.store = Store("parsed", AllNone)]
    ELSE Logged(m, <<EvStore("reset")>>)

\* TokenManager.py 293-313
reset_storage(m, a) ==
    IF StorageType(a) = "FILE"
    THEN [Logged(m, <<EvStore("reset")>>) EXCEPT !.store = Store("parsed", AllNone)]
    ELSE [Logged(m, <<EvStore("reset")>>) EXCEPT !.store = Store("unparsable", NoStages)]

\* Variant: in OFFLINE mode only the entry of the stage loses its refresh token.
update_local_storage_StripActiveOnly(m, a, stage) ==
    LET existing_tokens == IF m.store.kind = "parsed" THEN m.store.stages ELSE AllNone
        offline == a.auth_flow = "OFFLINE"
        kept == IF offline THEN StripRefresh(m.tokens) ELSE m.tokens
    IN  [Logged(m, <<EvParse(m.store.kind = "parsed"), EvStore("write")>>) EXCEPT
            !.tokens = kept,
            !.store = Store("parsed", [s \in DOMAIN existing_tokens \cup {stage} |->
                                          IF s = stage THEN kept ELSE existing_tokens[s]])]

\* Variant: the structure written is always a fresh one holding the stage only.
update_local_storage_Fresh(m, a, stage) ==
    LET offline == a.auth_flow = "OFFLINE"
        kept == IF offline THEN StripRefresh(m.tokens) ELSE m.tokens
    IN  [Logged(m, <<EvParse(FALSE), EvStore("write")>>) EXCEPT
            !.tokens = kept,
            !.store = Store("parsed", [s \in Stage |-> IF s = stage THEN kept ELSE {}])]

\* Variant: the entries written are copies, the pair in memory keeps its
\* refresh token.
update_local_storage_StripsCopy(m, a, stage) ==
    LET existing_tokens == IF m.store.kind = "parsed" THEN m.store.stages ELSE AllNone
        updated == [s \in DOMAIN existing_tokens \cup {stage} |->
                       IF s = stage THEN m.tokens ELSE existing_tokens[s]]
        written == IF a.auth_flow = "OFFLINE"
                   THEN [s \in DOMAIN updated |-> StripRefresh(updated[s])]
                   ELSE updated
    IN  [Logged(m, <<EvParse(m.store.kind = "parsed"), EvStore("write")>>) EXCEPT
            !.store = Store("parsed", written)]

\* Variant: the well-formed entries of a content that does not parse are kept.
update_local_storage_Salvages(m, a, stage) ==
    LET existing == m.store.kind = "parsed"
        existing_tokens == [s \in Stage \cup DOMAIN m.store.stages |->
                               IF s \in DOMAIN m.store.stages THEN m.store.stages[s] ELSE {}]
        updated == [s \in DOMAIN existing_tokens |->
                       IF s = stage THEN m.tokens ELSE existing_tokens[s]]
        offline == a.auth_flow = "OFFLINE"
        written == IF offline
                   THEN [s \in DOMAIN updated |-> StripRefresh(updated[s])]
                   ELSE updated
    IN  [Logged(m, <<EvParse(existing), EvStore("write")>>) EXCEPT
            !.tokens = IF offline THEN StripRefresh(m.tokens) ELSE m.tokens,
            !.store = Store("parsed", written)]

\* TokenManager.py 315-402. Both backends run the same steps: parse what is
\* there (a fresh all-None structure when that raises), put self.tokens under
\* the stage, in OFFLINE mode set refresh_token to None in every entry, and
\* write the whole structure back. The entry of the stage is the object
\* self.tokens itself, so the OFFLINE loop also clears self.tokens.refresh_token.
update_local_storage(m, a, stage) ==
    LET existing == m.store.kind = "parsed"
        existing_tokens == IF existing THEN m.store.stages ELSE AllNone
        updated == [s \in DOMAIN existing_tokens \cup {stage} |->
                       IF s = stage THEN m.tokens ELSE existing_tokens[s]]
        offline == a.auth_flow = "OFFLINE"
        written == IF offline
                   THEN [s \in DOMAIN updated |-> StripRefresh(updated[s])]
                   ELSE updated
    IN  [Logged(m, <<EvParse(existing), EvStore("write")>>) EXCEPT
            !.tokens = IF offline THEN StripRefresh(m.tokens) ELSE m.tokens,
            !.store = Store("parsed", written)]

----------------------------------------------------------------------------
(* Requests to the token endpoint with grant type refresh_token *)

TokenResponse(status, payload) == [status |-> status, payload |-> payload]

\* What the token endpoint can answer to a refresh grant at time t.
RefreshResponses(t) ==
    {TokenResponse("400", ErrorPayload("invalid_grant"))}
    \cup {TokenResponse("200", p) : p \in TokenPayloads(t)}

Truthy(str) == str # None_ /\ str # ""

\* TokenManager.py 580-628: one outcome per answer of the server.
perform_refresh(m, tks, t) ==
    LET desired_tokens == IF tks # {} THEN tks ELSE m.tokens
    IN  IF desired_tokens = {}
           \/ ~Truthy((CHOOSE x \in desired_tokens : TRUE).refresh_token)
        THEN {[m |-> m, exc |-> AssertionError, ret |-> {}]}
        ELSE LET carried == (CHOOSE x \in desired_tokens : TRUE).refresh_token
             IN  {LET m1 == Logged(m, <<EvRequest("refresh_token", carried),
                                        EvResponse(r.status, r.payload)>>)
                  IN  IF r.status # "200"
                      THEN [m |-> m1,
                            exc |-> Exc("Exception",
                                "Something went wrong during token refresh. Status code: ",
                                r.status),
                            ret |-> {}]
                      ELSE [m |-> m1, exc |-> NoExc, ret |-> {r.payload}]
                  : r \in RefreshResponses(t)}

\* Variant: a refused offline refresh is sent once more.
perform_offline_refresh_Retries(m, a, t) ==
    UNION {
        LET m1 == Logged(m, <<EvRequest("refresh_token", a.offline_token),
                              EvResponse(r.status, r.payload)>>)
        IN  IF r.status = "200"
            THEN {[m |-> m1, exc |-> NoExc, ret |-> {r.payload}]}
            ELSE {LET m2 == Logged(m1, <<EvRequest("refresh_token", a.offline_token),
                                         EvResponse(r2.status, r2.payload)>>)
                  IN  IF r2.status # "200"
                      THEN [m |-> m2,
                            exc |-> Exc("Exception",
                                "Something went wrong during offline token refresh. Status code: ",
                                r2.status),
                            ret |-> {}]
                      ELSE [m |-> m2, exc |-> NoExc, ret |-> {r2.payload}]
                  : r2 \in RefreshResponses(t)}
        : r \in RefreshResponses(t)}

\* TokenManager.py 404-438: one outcome per answer of the server.
perform_offline_refresh(m, a, t) ==
    {LET m1 == Logged(m, <<EvRequest("refresh_token", a.offline_token),
                           EvResponse(r.status, r.payload)>>)
     IN  IF r.status # "200"
         THEN [m |-> m1,
               exc |-> Exc("Exception",
                   "Something went wrong during offline token refresh. Status code: ",
                   r.status),
               ret |-> {}]
         ELSE [m |-> m1, exc |-> NoExc, ret |-> {r.payload}]
     : r \in RefreshResponses(t)}

\* refreshed.get('access_token'), refreshed.get('refresh_token') and the
\* "assert access_token; assert refresh_token" of 266-271 and 567-572
HasBothTruthy(payload) ==
    payload.access_token # {} /\ Truthy(payload.refresh_token)

\* the "is not None" checks of 509-511 and 538-540
HasBothNotNone(payload) ==
    payload.access_token # {} /\ payload.refresh_token # None_

PairOf(payload) ==
    {Tokens(x, payload.refresh_token) : x \in payload.access_token}

\* Variant: the refreshed pair is kept in memory and not written to the store.
perform_token_refresh_NoSave(m, a, t) ==
    IF m.tokens = {}
    THEN {[m |-> m, exc |-> AssertionError]}
    ELSE {IF o.exc # NoExc
          THEN [m |-> o.m, exc |-> o.exc]
          ELSE LET refreshed == CHOOSE x \in o.ret : TRUE
               IN  IF ~HasBothTruthy(refreshed)
                   THEN [m |-> o.m, exc |-> AssertionError]
                   ELSE [m |-> [o.m EXCEPT !.tokens = PairOf(refreshed)], exc |-> NoExc]
          : o \in perform_refresh(m, {}, t)}

\* TokenManager.py 556-578
perform_token_refresh(m, a, t) ==
    IF m.tokens = {}
    THEN {[m |-> m, exc |-> AssertionError]}
    ELSE {IF o.exc # NoExc
          THEN [m |-> o.m, exc |-> o.exc]
          ELSE LET refreshed == CHOOSE x \in o.ret : TRUE
               IN  IF ~HasBothTruthy(refreshed)
                   THEN [m |-> o.m, exc |-> AssertionError]
                   ELSE [m |-> update_local_storage(
                                  [o.m EXCEPT !.tokens = PairOf(refreshed)], a, o.m.stage),
                         exc |-> NoExc]
          : o \in perform_refresh(m, {}, t)}

----------------------------------------------------------------------------
(* Loading from the cache *)

\* Variant: the refreshed pair is returned without being validated.
RetrieveByRefresh_NoValidate(m, found, t) ==
    {IF o.exc # NoExc
     THEN [m |-> o.m, ret |-> {}]
     ELSE LET refreshed == CHOOSE x \in o.ret : TRUE
          IN  IF ~HasBothTruthy(refreshed)
              THEN [m |-> o.m, ret |-> {}]
              ELSE [m |-> o.m, ret |-> PairOf(refreshed)]
     : o \in perform_refresh(m, found, t)}

\* TokenManager.py 257-291: the cached pair did not validate; try to refresh
\* with it. Never raises: every failure is answered by returning None.
RetrieveByRefresh(m, found, t) ==
    {IF o.exc # NoExc
     THEN [m |-> o.m, ret |-> {}]
     ELSE LET refreshed == CHOOSE x \in o.ret : TRUE
          IN  IF ~HasBothTruthy(refreshed)
              THEN [m |-> o.m, ret |-> {}]
              ELSE LET v == validate_token(o.m, PairOf(refreshed), t)
                   IN  [m |-> v.m,
                        ret |-> IF v.exc = NoExc THEN PairOf(refreshed) ELSE {}]
     : o \in perform_refresh(m, found, t)}

\* Variant: a cached pair that does not validate is refreshed in OFFLINE
\* mode too.
retrieve_local_tokens_RefreshAlways(m, a, stage, t) ==
    LET m1 == Logged(m, <<EvStore("read")>>)
        found == EntryOf(m.store, stage)
    IN  IF found = {}
        THEN {[m |-> m1, ret |-> {}]}
        ELSE LET v == validate_token(m1, found, t)
             IN  IF v.exc = NoExc
                 THEN {[m |-> v.m, ret |-> found]}
                 ELSE RetrieveByRefresh(v.m, found, t)

\* TokenManager.py 186-291
retrieve_local_tokens(m, a, stage, t) ==
    LET m1 == Logged(m, <<EvStore("read")>>)
        found == EntryOf(m.store, stage)
    IN  IF found = {}
        THEN {[m |-> m1, ret |-> {}]}
        ELSE LET v == validate_token(m1, found, t)
             IN  IF v.exc = NoExc
                 THEN {[m |-> v.m, ret |-> found]}
                 ELSE IF a.auth_flow = "OFFLINE"
                 THEN {[m |-> v.m, ret |-> {}]}
                 ELSE RetrieveByRefresh(v.m, found, t)

----------------------------------------------------------------------------
(* Acquiring tokens *)

DeviceResponse(ok, interval) == [ok |-> ok, interval |-> interval]

\* What the device endpoint can answer: the registration, or a JSON object
\* without the registration fields.
DeviceResponses == {DeviceResponse(TRUE, ServerInterval), DeviceResponse(FALSE, 0)}

Pendings(k) == [i \in 1..k |-> ErrorPayload(PENDING)]

\* What ends a poll: an error other than authorization_pending, a payload
\* without error, an empty JSON object.
PollTerminals(t) ==
    {ErrorPayload("expired_token")} \cup TokenPayloads(t) \cup {EmptyPayload}

PollScripts(t) ==
    {Append(Pendings(k), last) : k \in 0..MaxPending, last \in PollTerminals(t)}

\* Variant: the new pair is held in memory and not written to the store.
AdoptPayload_NoSave(m, a, oauth_tokens, msg) ==
    IF ~HasBothNotNone(oauth_tokens)
    THEN [m |-> m, exc |-> Exc("Exception", msg, Str(AssertionError))]
    ELSE [m |-> [m EXCEPT !.tokens = PairOf(oauth_tokens)], exc |-> NoExc]

\* Variant: a payload whose access token is wrongly signed is refused before
\* it replaces the pair in memory and reaches the store.
AdoptPayload_ChecksSignature(m, a, oauth_tokens, msg) ==
    IF ~HasBothNotNone(oauth_tokens) \/ \E x \in oauth_tokens.access_token : ~x.sig
    THEN [m |-> m, exc |-> Exc("Exception", msg, Str(AssertionError))]
    ELSE [m |-> update_local_storage(
                    [m EXCEPT !.tokens = PairOf(oauth_tokens)], a, m.stage),
          exc |-> NoExc]

\* Variant: a payload without refresh token is adopted as it is.
AdoptPayload_AcceptsPartial(m, a, oauth_tokens, msg) ==
    IF oauth_tokens.access_token = {}
    THEN [m |-> m, exc |-> Exc("Exception", msg, Str(AssertionError))]
    ELSE [m |-> update_local_storage(
                    [m EXCEPT !.tokens = PairOf(oauth_tokens)], a, m.stage),
          exc |-> NoExc]

\* TokenManager.py 499-520 and 532-550: from the token payload to the cache.
AdoptPayload(m, a, oauth_tokens, msg) ==
    IF ~HasBothNotNone(oauth_tokens)
    THEN [m |-> m, exc |-> Exc("Exception", msg, Str(AssertionError))]
    ELSE [m |-> update_local_storage(
                    [m EXCEPT !.tokens = PairOf(oauth_tokens)], a, m.stage),
          exc |-> NoExc]

\* TokenManager.py 466-524: initiate, display, poll, adopt.
DeviceFlow(m, a, t) ==
    UNION {
        LET m1 == Logged(m, <<EvRequest("device", ""),
                              EvResponse("200", ErrorPayload(IF d.ok THEN "" ELSE "invalid_request"))>>)
        IN  IF ~d.ok
            THEN {[m |-> m1, exc |-> Exc("KeyError", "'device_code'", "")]}
            ELSE LET m2 == Logged(m1, <<EvPrint("Verification URL", "")>>)
                 IN  {LET p == await_device_auth_flow_completion(sc, d.interval, a.silent)
                          m3 == Logged(m2, p.log)
                      IN  IF p.kind = "raise"
                          THEN [m |-> m3, exc |-> AssertionError]
                          ELSE IF p.ret = {}
                          THEN [m |-> m3,
                                exc |-> Exc("Exception",
                                    "Failed to retrieve tokens from device authorisation flow!", "")]
                          ELSE AdoptPayload(m3, a, CHOOSE x \in p.ret : TRUE,
                                   "Token payload did not include access or refresh token: Error: ")
                      : sc \in PollScripts(t)}
        : d \in DeviceResponses}

\* TokenManager.py 526-554
OfflineFlow(m, a, t) ==
    {IF o.exc # NoExc
     THEN [m |-> o.m, exc |-> o.exc]
     ELSE AdoptPayload(o.m, a, CHOOSE x \in o.ret : TRUE,
              "Offline refresh token payload did not include access or refresh token: Error: ")
     : o \in perform_offline_refresh(m, a, t)}

\* Variant: a new flow is run whatever the cache gave.
get_tokens_IgnoresCache(m, a, t) ==
    UNION {
        IF a.auth_flow = "DEVICE"
        THEN DeviceFlow(r.m, a, t)
        ELSE OfflineFlow(r.m, a, t)
        : r \in retrieve_local_tokens(m, a, m.stage, t)}

\* Variant: the pair taken from the cache is not written back.
get_tokens_NoWriteBack(m, a, t) ==
    UNION {
        IF r.ret # {}
        THEN {[m |-> [r.m EXCEPT !.tokens = r.ret], exc |-> NoExc]}
        ELSE IF a.auth_flow = "DEVICE"
        THEN DeviceFlow(r.m, a, t)
        ELSE OfflineFlow(r.m, a, t)
        : r \in retrieve_local_tokens(m, a, m.stage, t)}

\* TokenManager.py 440-554
get_tokens(m, a, t) ==
    UNION {
        IF r.ret # {}
        THEN {[m |-> update_local_storage([r.m EXCEPT !.tokens = r.ret], a, r.m.stage),
               exc |-> NoExc]}
        ELSE IF a.auth_flow = "DEVICE"
        THEN DeviceFlow(r.m, a, t)
        ELSE OfflineFlow(r.m, a, t)
        : r \in retrieve_local_tokens(m, a, m.stage, t)}

----------------------------------------------------------------------------
(* The escalation of get_token and get_auth *)

Ended(m, exc, ret) == [m |-> m, exc |-> exc, ret |-> ret]
AccessOf(m) == {x.access_token : x \in m.tokens}

\* Variant: the message does not carry the error.
LoginFailed_NoCause(e) ==
    Exc("Exception",
        "Device log in failed, access token expired/invalid, and refresh failed. Error: ", "")

LoginFailed(e) ==
    Exc("Exception",
        "Device log in failed, access token expired/invalid, and refresh failed. Error: ",
        Str(e))

\* Variant: the new token generation fetches the public key again.
Reauthorize_FetchesKey(m, a, t) ==
    LET m0 == Logged(m, <<EvRequest("public_key", ""), EvResponse("200", ErrorPayload("")),
                          EvCall("get_tokens")>>)
    IN  {IF g.exc # NoExc
         THEN Ended(g.m, LoginFailed(g.exc), {})
         ELSE LET v == validate_token(g.m, {}, t)
              IN  IF v.exc # NoExc
                  THEN Ended(v.m, LoginFailed(v.exc), {})
                  ELSE Ended(v.m, NoExc, AccessOf(v.m))
         : g \in get_tokens(m0, a, t)}

\* Variant: the newly generated token is returned without being validated.
Reauthorize_NoValidate(m, a, t) ==
    {IF g.exc # NoExc
     THEN Ended(g.m, LoginFailed(g.exc), {})
     ELSE Ended(g.m, NoExc, AccessOf(g.m))
     : g \in get_tokens(Logged(m, <<EvCall("get_tokens")>>), a, t)}

\* TokenManager.py 685-691 and 733-739: new token generation, then validation.
Reauthorize(m, a, t) ==
    {IF g.exc # NoExc
     THEN Ended(g.m, LoginFailed(g.exc), {})
     ELSE LET v == validate_token(g.m, {}, t)
          IN  IF v.exc # NoExc
              THEN Ended(v.m, LoginFailed(v.exc), {})
              ELSE Ended(v.m, NoExc, AccessOf(v.m))
     : g \in get_tokens(Logged(m, <<EvCall("get_tokens")>>), a, t)}

\* Variant: a failed validation goes straight to the new token generation.
RefreshOrReauthorize_SkipRefresh(m, a, t) == Reauthorize(m, a, t)

\* TokenManager.py 681-691 and 729-739: the refresh, then validation; on any
\* exception the new token generation.
RefreshOrReauthorize(m, a, t) ==
    UNION {
        IF o.exc # NoExc
        THEN Reauthorize(Logged(o.m, <<EvExcept(o.exc)>>), a, t)
        ELSE LET v == validate_token(o.m, {}, t)
             IN  IF v.exc # NoExc
                 THEN Reauthorize(Logged(v.m, <<EvExcept(v.exc)>>), a, t)
                 ELSE {Ended(v.m, NoExc, AccessOf(v.m))}
        : o \in perform_token_refresh(Logged(m, <<EvCall("perform_token_refresh")>>), a, t)}

\* Variant: a manager that refreshes on every call.
Escalation_AlwaysRefresh(m, a, t, what) ==
    RefreshOrReauthorize(validate_token(m, {}, t).m, a, t)

\* TokenManager.py 666-692 and 714-740, which differ in the message of the
\* first raise and in what wraps the returned access token.
Escalation(m, a, t, what) ==
    IF m.tokens = {} \/ m.public_key = None_
    THEN {Ended(m, Exc("Exception", "cannot generate " \o what
                           \o " without access token or public key", ""), {})}
    ELSE LET v == validate_token(m, {}, t)
         IN  IF v.exc = NoExc
             THEN {Ended(v.m, NoExc, AccessOf(v.m))}
             ELSE RefreshOrReauthorize(
                      Logged(v.m, <<EvExcept(v.exc)>>
                                  \o IF a.silent THEN <<>>
                                     ELSE <<EvPrint("Token validation failed due to error: ",
                                                    Str(v.exc))>>),
                      a, t)

\* TokenManager.py 648-692
get_token(m, a, t) == Escalation(m, a, t, "token")

\* TokenManager.py 19-21: BearerAuth.__init__
BearerAuth(token) == [token |-> token]

\* A header value is the sequence of the pieces it is concatenated from.
Headers(authorization) ==
    [h \in {"accept"} \cup {x \in {"authorization"} : authorization # <<>>} |->
        IF h = "accept" THEN <<"*/*">> ELSE authorization]
PreparedRequest(headers) == [headers |-> headers]

\* The requests a BearerAuth is applied to: without and with an authorization header.
PreparedRequests ==
    {PreparedRequest(Headers(<<>>)), PreparedRequest(Headers(<<"Basic ", Access(TRUE, 0)>>))}

\* Variant: the header carries the token alone.
BearerAuth_call_NoScheme(self, r) ==
    [r EXCEPT !.headers = [h \in DOMAIN r.headers \cup {"authorization"} |->
                              IF h = "authorization" THEN <<self.token>> ELSE r.headers[h]]]

\* TokenManager.py 23-25: BearerAuth.__call__
BearerAuth_call(self, r) ==
    [r EXCEPT !.headers = [h \in DOMAIN r.headers \cup {"authorization"} |->
                              IF h = "authorization" THEN <<"Bearer ", self.token>>
                              ELSE r.headers[h]]]

\* Variant: get_auth raises when the token held does not validate.
get_auth_NoEscalation(m, a, t) ==
    LET v == validate_token(m, {}, t)
    IN  IF v.exc = NoExc
        THEN {Ended(v.m, NoExc, {BearerAuth(x) : x \in AccessOf(v.m)})}
        ELSE {Ended(v.m, LoginFailed(v.exc), {})}

\* TokenManager.py 694-740
get_auth(m, a, t) ==
    {[o EXCEPT !.ret = {BearerAuth(x) : x \in o.ret}] :
        o \in Escalation(m, a, t, "bearer auth object")}

----------------------------------------------------------------------------
(* Construction *)

\* What the GET of the realm endpoint can end in.
KeyResponses == {"200", "HTTPError", "ConnectionError", "Timeout"}

\* Variant: a failed GET of the realm endpoint is tried once more.
retrieve_keycloak_public_key_Retries(m, a) ==
    UNION {
        LET m1 == Logged(m, <<EvRequest("public_key", ""),
                              EvResponse(k, ErrorPayload(IF k = "200" THEN "" ELSE k))>>)
        IN  IF k = "200"
            THEN {[m |-> [m1 EXCEPT !.public_key = "-----BEGIN PUBLIC KEY-----"], exc |-> NoExc]}
            ELSE {LET m2 == Logged(m1, <<EvRequest("public_key", ""),
                                         EvResponse(k2, ErrorPayload(IF k2 = "200" THEN "" ELSE k2))>>)
                  IN  IF k2 = "200"
                      THEN [m |-> [m2 EXCEPT !.public_key = "-----BEGIN PUBLIC KEY-----"],
                            exc |-> NoExc]
                      ELSE [m |-> m2, exc |-> Exc(k2, k2, "")]
                  : k2 \in KeyResponses}
        : k \in KeyResponses}

\* TokenManager.py 742-769
retrieve_keycloak_public_key(m, a) ==
    {LET m1 == Logged(m, <<EvRequest("public_key", ""),
                           EvResponse(k, ErrorPayload(IF k = "200" THEN "" ELSE k))>>)
     IN  IF k = "200"
         THEN [m |-> [m1 EXCEPT !.public_key = "-----BEGIN PUBLIC KEY-----"], exc |-> NoExc]
         ELSE [m |-> IF a.silent THEN m1
                     ELSE Logged(m1, <<EvPrint("Error finding public key", k)>>),
               exc |-> Exc(k, k, "")]
     : k \in KeyResponses}

ValueError(msg) == Exc("ValueError", msg, "")

\* Variant: a constructor that does not look at the storage targets.
init_NoTargetCheck(a, st, t) ==
    LET m0 == Manager({}, st, None_, <<>>)
        m1 == IF a.force_token_refresh
              THEN reset_storage(WithStage(m0, a.stage), a)
              ELSE WithStage(m0, a.stage)
    IN  UNION {
            IF k.exc # NoExc
            THEN {k}
            ELSE get_tokens(Logged(k.m, <<EvCall("get_tokens")>>), a, t)
            : k \in retrieve_keycloak_public_key(m1, a)}

\* Variant: a constructor that does not compare the mode with the offline token.
init_NoModeCheck(a, st, t) ==
    LET m0 == Manager({}, st, None_, <<>>)
    IN  IF a.local_storage_location # None_ /\ a.local_storage_object
        THEN {[m |-> m0, exc |-> ValueError("Can't specify both local storage file and object.")]}
        ELSE IF a.stage \notin Stage
        THEN {[m |-> m0, exc |-> ValueError("Stage " \o a.stage \o " is not one of Stage")]}
        ELSE LET m1 == IF a.force_token_refresh
                       THEN reset_storage(WithStage(m0, a.stage), a)
                       ELSE WithStage(m0, a.stage)
             IN  UNION {
                     IF k.exc # NoExc
                     THEN {k}
                     ELSE get_tokens(Logged(k.m, <<EvCall("get_tokens")>>), a, t)
                     : k \in retrieve_keycloak_public_key(m1, a)}

\* Variant: a constructor that takes the stage name as it comes.
init_NoStageCheck(a, st, t) ==
    LET m0 == Manager({}, st, None_, <<>>)
    IN  IF a.local_storage_location # None_ /\ a.local_storage_object
        THEN {[m |-> m0, exc |-> ValueError("Can't specify both local storage file and object.")]}
        ELSE IF a.auth_flow = "OFFLINE" /\ ~Truthy(a.offline_token)
        THEN {[m |-> m0, exc |-> ValueError("no offline token")]}
        ELSE IF a.auth_flow = "DEVICE" /\ Truthy(a.offline_token)
        THEN {[m |-> m0, exc |-> ValueError("offline token")]}
        ELSE LET m1 == IF a.force_token_refresh
                       THEN reset_storage(WithStage(m0, a.stage), a)
                       ELSE WithStage(m0, a.stage)
             IN  UNION {
                     IF k.exc # NoExc
                     THEN {k}
                     ELSE get_tokens(Logged(k.m, <<EvCall("get_tokens")>>), a, t)
                     : k \in retrieve_keycloak_public_key(m1, a)}

\* Variant: with force_token_refresh the store is reset before the arguments
\* are checked.
init_ResetsFirst(a, st, t) ==
    LET m0 == IF a.force_token_refresh
              THEN reset_storage(Manager({}, st, None_, <<>>), a)
              ELSE Manager({}, st, None_, <<>>)
    IN  IF a.local_storage_location # None_ /\ a.local_storage_object
        THEN {[m |-> m0, exc |-> ValueError("Can't specify both local storage file and object.")]}
        ELSE IF a.auth_flow = "OFFLINE" /\ ~Truthy(a.offline_token)
        THEN {[m |-> m0, exc |-> ValueError("no offline token")]}
        ELSE IF a.auth_flow = "DEVICE" /\ Truthy(a.offline_token)
        THEN {[m |-> m0, exc |-> ValueError("offline token")]}
        ELSE IF a.stage \notin Stage
        THEN {[m |-> m0, exc |-> ValueError("Stage " \o a.stage \o " is not one of Stage")]}
        ELSE UNION {
                 IF k.exc # NoExc
                 THEN {k}
                 ELSE get_tokens(Logged(k.m, <<EvCall("get_tokens")>>), a, t)
                 : k \in retrieve_keycloak_public_key(WithStage(m0, a.stage), a)}

\* Variant: the public key is fetched before the forced reset of the store.
init_KeyBeforeReset(a, st, t) ==
    LET m0 == Manager({}, st, None_, <<>>)
    IN  IF a.local_storage_location # None_ /\ a.local_storage_object
        THEN {[m |-> m0, exc |-> ValueError("Can't specify both local storage file and object.")]}
        ELSE IF a.auth_flow = "OFFLINE" /\ ~Truthy(a.offline_token)
        THEN {[m |-> m0, exc |-> ValueError("no offline token")]}
        ELSE IF a.auth_flow = "DEVICE" /\ Truthy(a.offline_token)
        THEN {[m |-> m0, exc |-> ValueError("offline token")]}
        ELSE IF a.stage \notin Stage
        THEN {[m |-> m0, exc |-> ValueError("Stage " \o a.stage \o " is not one of Stage")]}
        ELSE UNION {
                 IF k.exc # NoExc
                 THEN {k}
                 ELSE get_tokens(
                          Logged(IF a.force_token_refresh THEN reset_storage(k.m, a) ELSE k.m,
                                 <<EvCall("get_tokens")>>), a, t)
                 : k \in retrieve_keycloak_public_key(WithStage(m0, a.stage), a)}

\* TokenManager.py 108-169
init(a, st, t) ==
    LET m0 == Manager({}, st, None_, <<>>)
    IN  IF a.local_storage_location # None_ /\ a.local_storage_object
        THEN {[m |-> m0, exc |-> ValueError("Can't specify both local storage file and object.")]}
        ELSE IF a.auth_flow = "OFFLINE" /\ ~Truthy(a.offline_token)
        THEN {[m |-> m0, exc |-> ValueError(
                  "You are using an offline auth flow but did not provide an offline token!")]}
        ELSE IF a.auth_flow = "DEVICE" /\ Truthy(a.offline_token)
        THEN {[m |-> m0, exc |-> ValueError(
                  "You provided an offline token but specified the DEVICE auth flow. "
                  \o "The DEVICE auth flow does not require an offline token.")]}
        ELSE IF a.stage \notin Stage
        THEN {[m |-> m0, exc |-> ValueError(
                  "Stage " \o a.stage \o " is not one of [<Stage.TEST: 'TEST'>, "
                  \o "<Stage.DEV: 'DEV'>, <Stage.STAGE: 'STAGE'>, <Stage.PROD: 'PROD'>].")]}
        ELSE LET m1 == IF a.force_token_refresh
                       THEN reset_storage(WithStage(m0, a.stage), a)
                       ELSE WithStage(m0, a.stage)
             IN  UNION {
                     IF k.exc # NoExc
                     THEN {k}
                     ELSE get_tokens(Logged(k.m, <<EvCall("get_tokens")>>), a, t)
                     : k \in retrieve_keycloak_public_key(m1, a)}

----------------------------------------------------------------------------
(* The manager's life: one constructor call, then get_token and get_auth    *)
(* calls while the clock advances.                                          *)

Result(op, exc, val) == [op |-> op, exc |-> exc, val |-> val]

Args(stage, auth_flow, offline_token, location, object, force, silent) ==
    [stage |-> stage, auth_flow |-> auth_flow, offline_token |-> offline_token,
     local_storage_location |-> location, local_storage_object |-> object,
     force_token_refresh |-> force, silent |-> silent]

\* Constructor calls: every combination of mode, offline token, storage
\* targets and flags for the stage TEST, and a stage name that does not exist.
ArgSets ==
    {Args("TEST", f, o, l, ob, fr, si) :
        f \in {"DEVICE", "OFFLINE"},
        o \in {None_, "offline-token"}, l \in {None_, "tokens.json"},
        ob \in BOOLEAN, fr \in BOOLEAN, si \in BOOLEAN}
    \cup {Args("BOGUS", f, IF f = "OFFLINE" THEN "offline-token" ELSE None_,
                l, ob, fr, FALSE) :
        f \in {"DEVICE", "OFFLINE"}, l \in {None_, "tokens.json"},
        ob \in BOOLEAN, fr \in BOOLEAN}

\* Cache entries found at start: valid, expired, wrongly signed, with and
\* without refresh token.
CachedEntries ==
    {{}} \cup {{Tokens(x, r)} : x \in {Access(TRUE, 0), Access(TRUE, -1)}, r \in {"r0", None_}}
         \cup {{Tokens(Access(FALSE, 0), "r0")}}

\* The pair cached for another stage: its access token outlives every token
\* issued for the stage of the manager, which tells the two apart.
OtherEntry == {Tokens(Access(TRUE, MaxTime + TokenLifetime + 1), "r9")}

\* What the storage backend holds before the constructor runs.
InitStores ==
    {Store("parsed", [s \in Stage |-> IF s = "TEST" THEN e
                                      ELSE IF s = "DEV" THEN OtherEntry ELSE {}]) :
        e \in CachedEntries}
    \cup {Store("parsed", AllNone),
          Store("parsed", [s \in {"DEV"} |-> OtherEntry]),
          Store("unparsable", NoStages),
          Store("unparsable", [s \in {"DEV"} |-> OtherEntry]),
          Store("unparsable", [s \in {"TEST"} |-> {Tokens(Access(TRUE, 0), "r0")}]),
          Store("missing", NoStages)}

NoPollIn == [script |-> <<>>, interval |-> 0, silent |-> FALSE]
NoPollOut == [impl |-> "", out |-> PollOutcome("", {}, "", 0, <<>>)]

Init ==
    /\ pc = "new"
    /\ args \in ArgSets
    /\ store \in InitStores
    /\ (store.kind = "missing" => ~args.local_storage_object)
    /\ public_key = None_
    /\ tokens = {}
    /\ self_stage = None_
    /\ now = 0
    /\ log = <<>>
    /\ result = Result("", NoExc, {})
    /\ poll_in = NoPollIn
    /\ poll_out = NoPollOut
    /\ existing_of = <<>>

\* DeviceFlowManager(...)
Construct ==
    /\ pc = "new"
    /\ \E o \in init(args, store, now) :
          /\ pc' = IF o.exc = NoExc THEN "ready" ELSE "failed"
          /\ public_key' = o.m.public_key
          /\ tokens' = o.m.tokens
          /\ self_stage' = o.m.stage
          /\ store' = o.m.store
          /\ log' = o.m.log
          /\ result' = Result("__init__", o.exc, {})
    /\ UNCHANGED <<args, now, poll_in, poll_out, existing_of>>

Idle == result.op \in {"", "__init__"}

Call(op, outcomes) ==
    /\ pc = "ready"
    /\ Idle
    /\ \E o \in outcomes :
          /\ public_key' = o.m.public_key
          /\ tokens' = o.m.tokens
          /\ self_stage' = o.m.stage
          /\ store' = o.m.store
          /\ log' = o.m.log
          /\ result' = Result(op, o.exc, o.ret)
    /\ UNCHANGED <<pc, args, now, poll_in, poll_out, existing_of>>

\* manager.get_token()
GetToken ==
    Call("get_token",
         get_token(WithStage(Manager(tokens, store, public_key, <<>>), self_stage), args, now))

\* manager.get_auth()
GetAuth ==
    Call("get_auth",
         get_auth(WithStage(Manager(tokens, store, public_key, <<>>), self_stage), args, now))

\* requests.get(endpoint, auth=manager.get_auth()): requests applies the
\* BearerAuth to the request it has prepared
SendWithAuth ==
    /\ pc = "ready"
    /\ result.op = "get_auth"
    /\ result.exc = NoExc
    /\ \E auth \in result.val, r \in PreparedRequests :
          result' = Result("BearerAuth.__call__", NoExc, {BearerAuth_call(auth, r)})
    /\ UNCHANGED <<pc, args, public_key, tokens, self_stage, store, now, log, poll_in, poll_out, existing_of>>

\* the caller takes the result of the call; the record of the call is dropped
Return ==
    /\ pc = "ready"
    /\ result.op \in {"get_token", "get_auth", "BearerAuth.__call__"}
    /\ log' = <<>>
    /\ result' = Result("", NoExc, {})
    /\ UNCHANGED <<pc, args, public_key, tokens, self_stage, store, now, poll_in, poll_out, existing_of>>

\* time passes between calls
Tick ==
    /\ pc = "ready"
    /\ Idle
    /\ now < MaxTime
    /\ now' = now + 1
    /\ UNCHANGED <<pc, args, public_key, tokens, self_stage, store, log, result, poll_in, poll_out, existing_of>>

Next == Construct \/ GetToken \/ GetAuth \/ SendWithAuth \/ Return \/ Tick

Spec == Init /\ [][Next]_vars

----------------------------------------------------------------------------
(* The poller on its own: a script of server answers, an interval, and the  *)
(* two implementations of the loop.                                         *)

PollAlphabet ==
    {ErrorPayload(PENDING)} \cup {ErrorPayload(e) : e \in TerminalErrors}
    \cup TokenPayloads(0) \cup {EmptyPayload}

RECURSIVE Scripts(_)
Scripts(n) ==
    IF n = 0 THEN {<<>>}
    ELSE Scripts(n - 1) \cup {Append(sc, r) : sc \in {x \in Scripts(n - 1) : Len(x) = n - 1},
                                             r \in PollAlphabet}

InitPoll ==
    /\ pc = "poll"
    /\ args = Args("TEST", "DEVICE", None_, None_, FALSE, FALSE, FALSE)
    /\ store = Store("missing", NoStages)
    /\ public_key = None_
    /\ tokens = {}
    /\ self_stage = None_
    /\ now = 0
    /\ log = <<>>
    /\ result = Result("", NoExc, {})
    /\ poll_in \in [script : Scripts(MaxScript), interval : 1..MaxInterval, silent : BOOLEAN]
    /\ poll_out = NoPollOut
    /\ existing_of = <<>>

Polled(impl, out) ==
    /\ pc = "poll"
    /\ poll_out = NoPollOut
    /\ out.kind # "starved"
    /\ poll_out' = [impl |-> impl, out |-> out]
    /\ UNCHANGED <<pc, args, public_key, tokens, self_stage, store, now, log, result, poll_in, existing_of>>

\* DeviceFlowManager.await_device_auth_flow_completion
ManagerPoll ==
    Polled("manager",
           await_device_auth_flow_completion(poll_in.script, poll_in.interval, poll_in.silent))

\* get_offline_code.await_device_auth_flow_completion
ScriptPoll ==
    Polled("script",
           script_await_device_auth_flow_completion(poll_in.script, poll_in.interval))

NextPoll == ManagerPoll \/ ScriptPoll

SpecPoll == InitPoll /\ [][NextPoll]_vars

----------------------------------------------------------------------------
(* The loop of the poller step by step: the server answers each request as  *)
(* it likes, the poller remembers the last answer only. poll_in.script is   *)
(* response_data (<<>> for None), poll_out.out.used counts the requests up  *)
(* to MaxPolls and stays there.                                             *)

\* Variant: the poller gives up after MaxPolls requests.
timed_out_AfterMaxPolls(used) == used >= MaxPolls

\* TokenManager.py 825: timed_out = False, and nothing assigns it again
timed_out(used) == FALSE

\* TokenManager.py 838-841: misc_fail after the answer response_data
misc_fail(response_data) == response_data.error \notin {"", PENDING}

InitPolling ==
    /\ pc = "while"
    /\ args = Args("TEST", "DEVICE", None_, None_, FALSE, FALSE, FALSE)
    /\ store = Store("missing", NoStages)
    /\ public_key = None_
    /\ tokens = {}
    /\ self_stage = None_
    /\ now = 0
    /\ log = <<>>
    /\ result = Result("", NoExc, {})
    /\ poll_in \in [script : {<<>>}, interval : 1..MaxInterval, silent : BOOLEAN]
    /\ poll_out = [impl |-> "manager", out |-> PollOutcome("", {}, "", 0, <<>>)]
    /\ existing_of = <<>>

Polling(next_pc, response_data, kind, ret, exc, used, lg) ==
    /\ pc' = next_pc
    /\ poll_in' = [poll_in EXCEPT !.script = response_data]
    /\ poll_out' = [poll_out EXCEPT !.out = PollOutcome(kind, ret, exc, used, lg)]
    /\ UNCHANGED <<args, public_key, tokens, self_stage, store, now, log, result, existing_of>>

\* TokenManager.py 833-841, 844-846: the loop condition holds; post, read the
\* answer, assert, look at the error
PostAndRead ==
    /\ pc = "while"
    /\ LET used == poll_out.out.used
           more == IF used < MaxPolls THEN used + 1 ELSE used
       IN  /\ ~timed_out(used)
           /\ \E response_data \in PollAlphabet :
                 LET lg == <<EvRequest("device_code", ""), EvResponse("200", response_data)>>
                 IN  IF response_data.empty
                     THEN Polling("raised", <<response_data>>, "raise", {}, "AssertionError",
                                  more, lg)
                     ELSE IF response_data.error # ""
                     THEN Polling("sleep", <<response_data>>, "", {}, "", more, lg)
                     ELSE Polling("returned", <<response_data>>, "return", {response_data},
                                  "", more, lg)

\* TokenManager.py 842-843 and the loop condition of 833
Sleep ==
    /\ pc = "sleep"
    /\ LET response_data == poll_in.script[1]
           after == misc_fail(response_data) \/ timed_out(poll_out.out.used)
       IN  Polling(IF after THEN "after" ELSE "while", poll_in.script, "", {}, "",
                   poll_out.out.used, SleepAfterError(<<>>, poll_in.interval))

\* TokenManager.py 848-855: the loop condition failed after a sleep, so
\* response_data is an answer with an error
AfterLoop ==
    /\ pc = "after"
    /\ LET lg == IF poll_in.silent THEN <<>>
                 ELSE <<EvPrint("Failed due to", poll_in.script[1].error)>>
       IN  Polling("returned", poll_in.script, "return", {}, "", poll_out.out.used, lg)

NextPolling == PostAndRead \/ Sleep \/ AfterLoop

\* The poller is sequential code that blocks only in post and in sleep: it
\* takes its next step as long as it has one.
SpecPolling == InitPolling /\ [][NextPolling]_vars /\ WF_vars(NextPolling)

----------------------------------------------------------------------------
(* The persistence layer on its own: a manager holding a pair, a store      *)
(* content, and the operations on the store.                                *)

HeldPairs ==
    {Tokens(Access(TRUE, 0), r) : r \in {"r1", None_}} \cup {Tokens(Access(FALSE, 0), "r1")}

InitStore ==
    /\ pc = "store"
    /\ args \in {Args(s, f, IF f = "OFFLINE" THEN "offline-token" ELSE None_,
                      None_, ob, FALSE, FALSE) :
                    s \in Stage, f \in {"DEVICE", "OFFLINE"}, ob \in BOOLEAN}
    /\ store \in InitStores
    /\ (store.kind = "missing" => ~args.local_storage_object)
    /\ public_key = "-----BEGIN PUBLIC KEY-----"
    /\ tokens \in {{x} : x \in HeldPairs}
    /\ self_stage = args.stage
    /\ now = 0
    /\ log = <<>>
    /\ result = Result("", NoExc, {})
    /\ poll_in = NoPollIn
    /\ poll_out = NoPollOut
    /\ existing_of = <<>>

StoreStep(op, m) ==
    /\ pc = "store"
    /\ tokens' = m.tokens
    /\ store' = m.store
    /\ log' = m.log
    /\ result' = Result(op, NoExc, {})
    /\ UNCHANGED <<pc, args, public_key, self_stage, now, poll_in, poll_out, existing_of>>

\* self.update_local_storage(self.stage)
UpdateLocalStorage ==
    StoreStep("update_local_storage",
              update_local_storage(Manager(tokens, store, public_key, <<>>), args, self_stage))

\* self.reset_storage()
ResetStorage ==
    StoreStep("reset_storage", reset_storage(Manager(tokens, store, public_key, <<>>), args))

NextStore == UpdateLocalStorage \/ ResetStorage

SpecStore == InitStore /\ [][NextStore]_vars

----------------------------------------------------------------------------
(* Two managers for different stages on one store, each running             *)
(* update_local_storage once. The call parses the content, then builds what *)
(* it writes from what it parsed, and nothing keeps the other manager from  *)
(* running in between. pc, tokens and self_stage are per manager;           *)
(* existing_of[i] is the content manager i parsed; log is the order of the  *)
(* reads and writes, the manager in the field w.                            *)

Managers == {"m1", "m2"}

InitShared ==
    /\ pc = [i \in Managers |-> "start"]
    /\ args \in {Args("TEST", f, IF f = "OFFLINE" THEN "offline-token" ELSE None_,
                      None_, ob, FALSE, FALSE) :
                    f \in {"DEVICE", "OFFLINE"}, ob \in BOOLEAN}
    /\ store \in InitStores
    /\ (store.kind = "missing" => ~args.local_storage_object)
    /\ public_key = "-----BEGIN PUBLIC KEY-----"
    /\ tokens \in [Managers -> {{x} : x \in HeldPairs}]
    /\ self_stage \in {f \in [Managers -> Stage] : f["m1"] # f["m2"]}
    /\ now = 0
    /\ log = <<>>
    /\ result = Result("", NoExc, {})
    /\ poll_in = NoPollIn
    /\ poll_out = NoPollOut
    /\ existing_of = [i \in Managers |-> Store("missing", NoStages)]

\* TokenManager.py 332-337, 369-374: StageTokens.parse_file / parse_obj
ParseStore(i) ==
    /\ pc[i] = "start"
    /\ pc' = [pc EXCEPT ![i] = "parsed"]
    /\ existing_of' = [existing_of EXCEPT ![i] = store]
    /\ log' = Append(log, Ev("store", "read", i, 0, {}))
    /\ UNCHANGED <<args, public_key, tokens, self_stage, store, now, result, poll_in, poll_out>>

\* Variant: the update is atomic, what is written is built from the content
\* at the time of the write.
Basis_AtWriteTime(i) == store

\* TokenManager.py 339-354, 376-391: what is written is built from the content
\* the call parsed
Basis(i) == existing_of[i]

\* TokenManager.py 339-366, 376-402: put the pair under the stage, strip in
\* OFFLINE mode, write the whole structure
WriteStore(i) ==
    /\ pc[i] = "parsed"
    /\ LET m == update_local_storage(Manager(tokens[i], Basis(i), public_key, <<>>),
                                     args, self_stage[i])
       IN  /\ store' = m.store
           /\ tokens' = [tokens EXCEPT ![i] = m.tokens]
    /\ pc' = [pc EXCEPT ![i] = "written"]
    /\ log' = Append(log, Ev("store", "write", i, 0, {}))
    /\ UNCHANGED <<args, public_key, self_stage, now, result, poll_in, poll_out, existing_of>>

NextShared == \E i \in Managers : ParseStore(i) \/ WriteStore(i)

SpecShared == InitShared /\ [][NextShared]_vars

----------------------------------------------------------------------------
(* Vocabulary of the properties *)

\* jwt.decode accepts the access token of the pair at time t
Validates(pair, t) ==
    /\ pair # {}
    /\ \A x \in pair : x.access_token.sig /\ x.access_token.exp >= t

\* the signature is right and the exp claim is in the past
Expired(pair, t) ==
    /\ pair # {}
    /\ \A x \in pair : x.access_token.sig /\ x.access_token.exp < t

\* the pair a token payload carries, when it carries both tokens
NewPair(p) ==
    IF p.refresh_token \in {None_, ""} THEN {}
    ELSE {[access_token |-> x, refresh_token |-> p.refresh_token] : x \in p.access_token}

WithoutRefresh(entry) ==
    {[access_token |-> x.access_token, refresh_token |-> None_] : x \in entry}

\* what reloading the store gives for a stage
Reload(st, s) == IF st.kind = "parsed" /\ s \in DOMAIN st.stages THEN st.stages[s] ELSE {}

IsCall(op) == op \in {"get_token", "get_auth"}
Requests(lg) == {i \in 1..Len(lg) : lg[i].t = "request"}
RequestsOf(lg, kind) == {i \in 1..Len(lg) : lg[i].t = "request" /\ lg[i].v = kind}
Responses(lg) == {i \in 1..Len(lg) : lg[i].t = "response"}
Sleeps(lg) == {i \in 1..Len(lg) : lg[i].t = "sleep"}
CallsOf(lg, name) == {i \in 1..Len(lg) : lg[i].t = "call" /\ lg[i].v = name}
Wrote(lg) == \E i \in 1..Len(lg) : lg[i].t = "store" /\ lg[i].v \in {"write", "reset"}
Min(S) == CHOOSE i \in S : \A j \in S : i <= j
PayloadAt(lg, i) == CHOOSE p \in lg[i].p : TRUE

\* the access token a call returned: the string itself, or the token of the
\* BearerAuth
TokenReturned(res) == IF res.op = "get_auth" THEN {v.token : v \in res.val} ELSE res.val

\* a step of Spec that is a get_token or get_auth call
CallStep == pc = "ready" /\ result.op \in {"", "__init__"} /\ IsCall(result'.op)

----------------------------------------------------------------------------
(* C1: when the access token held in memory validates, get_token and       *)
(* get_auth return exactly that access token, send no request, and leave    *)
(* the pair in memory and the store as they were.                           *)

C1_ValidTokenIsReturnedUntouched ==
    [][(CallStep /\ Validates(tokens, now)) =>
          /\ result'.exc = NoExc
          /\ TokenReturned(result') = {x.access_token : x \in tokens}
          /\ Requests(log') = {}
          /\ tokens' = tokens
          /\ store' = store]_vars

C1_Witness ==
    /\ pc = "ready" /\ result.op = "get_token" /\ result.exc = NoExc
    /\ Validates(tokens, now) /\ Requests(log) = {} /\ Len(log) = 1

----------------------------------------------------------------------------
(* C2: DEVICE mode, the access token in memory is expired and the server    *)
(* answers the refresh grant with a pair that validates: one get_token call *)
(* sends exactly one request, a refresh grant carrying the refresh token    *)
(* held before the call, returns the new access token, and afterwards the   *)
(* entry of the stage in the store, and the pair in memory, is the new pair.*)

RefreshAccepted(lg, t) ==
    /\ Responses(lg) # {}
    /\ lg[Min(Responses(lg))].v = "200"
    /\ Validates(NewPair(PayloadAt(lg, Min(Responses(lg)))), t)

C2_ExpiredTokenIsRefreshedOnce ==
    [][(/\ CallStep /\ result'.op = "get_token"
        /\ args.auth_flow = "DEVICE"
        /\ Expired(tokens, now)
        /\ \A x \in tokens : x.refresh_token \notin {None_, ""}
        /\ RefreshAccepted(log', now)) =>
          LET new == NewPair(PayloadAt(log', Min(Responses(log'))))
          IN  /\ Cardinality(Requests(log')) = 1
              /\ \A i \in Requests(log') :
                    /\ log'[i].v = "refresh_token"
                    /\ \A x \in tokens : log'[i].w = x.refresh_token
              /\ result'.exc = NoExc
              /\ TokenReturned(result') = {x.access_token : x \in new}
              /\ tokens' = new
              /\ Reload(store', args.stage) = new]_vars

C2_Witness ==
    /\ pc = "ready" /\ result.op = "get_token" /\ result.exc = NoExc
    /\ args.auth_flow = "DEVICE"
    /\ Len(log) > 0 /\ log[1] = EvValidate("ExpiredSignatureError")
    /\ Cardinality(RequestsOf(log, "refresh_token")) = 1
    /\ RefreshAccepted(log, now)
    /\ Reload(store, args.stage) = tokens

----------------------------------------------------------------------------
(* C3: OFFLINE mode: after a call in which the manager wrote the store, no  *)
(* entry of the store, of any stage, has a refresh token.                   *)

NoRefreshStored(st) ==
    \A s \in DOMAIN st.stages : \A x \in st.stages[s] : x.refresh_token = None_

C3_OfflineNeverStoresRefreshToken ==
    (args.auth_flow = "OFFLINE" /\ Wrote(log)) => NoRefreshStored(store)

\* the entry of another stage, which held a refresh token, has lost it
C3_Witness ==
    /\ args.auth_flow = "OFFLINE" /\ Wrote(log) /\ pc = "ready"
    /\ args.stage = "TEST"
    /\ Reload(store, "DEV") = WithoutRefresh(OtherEntry)
    /\ Reload(store, "TEST") # {}

----------------------------------------------------------------------------
(* C4 as written: after update_local_storage(S) on a parsable store, every  *)
(* stage other than S reloads to exactly the entry it held before, and S    *)
(* reloads to the manager's pair.                                           *)

UpdateStep == pc = "store" /\ result'.op = "update_local_storage" /\ store.kind = "parsed"

C4_Original ==
    [][UpdateStep =>
          /\ \A s \in Stage \ {args.stage} : Reload(store', s) = Reload(store, s)
          /\ Reload(store', args.stage) = tokens']_vars

(* C4 as amended: every stage other than S reloads to the entry it held     *)
(* before, in OFFLINE mode without its refresh token; S reloads to the      *)
(* manager's pair, which in OFFLINE mode has lost its refresh token too.    *)

C4_UpdateKeepsOtherStages ==
    [][UpdateStep =>
          /\ store'.kind = "parsed"
          /\ \A s \in Stage \ {args.stage} :
                Reload(store', s) = IF args.auth_flow = "OFFLINE"
                                    THEN WithoutRefresh(Reload(store, s))
                                    ELSE Reload(store, s)
          /\ Reload(store', args.stage) = tokens'
          /\ tokens' = IF args.auth_flow = "OFFLINE"
                       THEN WithoutRefresh(tokens) ELSE tokens]_vars

C4_Witness ==
    /\ pc = "store" /\ result.op = "update_local_storage"
    /\ args.stage = "PROD"
    /\ Reload(store, "DEV") # {} /\ Reload(store, "TEST") # {}
    /\ Reload(store, "PROD") = tokens

----------------------------------------------------------------------------
(* C5 as written: when the constructor returns, the access token in memory  *)
(* validates.                                                               *)

ConstructStep == pc = "new" /\ pc' = "ready"
Constructed == pc = "ready" /\ result.op = "__init__"

C5_Original == [][ConstructStep => Validates(tokens', now')]_vars

(* C5 as amended: when the constructor returns with a pair taken from the   *)
(* cache, as found or after refreshing it, the access token in memory       *)
(* validates; a pair obtained from a new device flow or a new offline       *)
(* refresh is kept without being validated.                                 *)

FreshFlow(lg, a) ==
    \/ RequestsOf(lg, "device") # {}
    \/ a.auth_flow = "OFFLINE" /\ RequestsOf(lg, "refresh_token") # {}

C5_CachedPairValidatesAfterConstruction ==
    [][(ConstructStep /\ ~FreshFlow(log', args)) =>
          /\ Validates(tokens', now')
          /\ public_key' # None_]_vars

\* constructed from a cached pair that was refreshed
C5_Witness ==
    /\ Constructed /\ args.auth_flow = "DEVICE"
    /\ RequestsOf(log, "refresh_token") # {} /\ RequestsOf(log, "device") = {}
    /\ Validates(tokens, now)

----------------------------------------------------------------------------
(* C6: within one get_token or get_auth call the tiers run in the order     *)
(* validate, refresh, re-authorize and the call stops at the first success: *)
(* nothing follows a first validation that succeeds; every request comes    *)
(* after a first validation that failed; the new token generation is        *)
(* entered once at most, after the refresh tier was entered and failed;     *)
(* device-endpoint requests, polls and offline refreshes come after it.     *)

\* the event at i tells that the refresh tier has failed: nothing was sent,
\* the request was rejected, the payload lacks a token, or the refreshed
\* token does not validate
TierFailedAt(lg, i) ==
    \/ lg[i].t = "call"
    \/ lg[i].t = "response" /\ lg[i].v # "200"
    \/ lg[i].t = "response" /\ NewPair(PayloadAt(lg, i)) = {}
    \/ lg[i].t = "validate" /\ lg[i].v # ""

C6_TiersRunInOrder ==
    (pc = "ready" /\ IsCall(result.op)) =>
        LET R == CallsOf(log, "perform_token_refresh")
            G == CallsOf(log, "get_tokens")
        IN  /\ Len(log) >= 1 /\ log[1].t = "validate"
            /\ log[1].v = "" => Len(log) = 1
            /\ Cardinality(R) <= 1 /\ Cardinality(G) <= 1
            /\ \A i \in Requests(log) : log[1].v # "" /\ \E r \in R : r < i
            /\ \A g \in G : \E r \in R :
                  /\ r < g - 1
                  /\ log[g - 1].t = "except"
                  /\ TierFailedAt(log, g - 2)
                  /\ \A i \in (r + 1)..(g - 2) : log[i].t = "validate" => i = g - 2
            /\ \A i \in RequestsOf(log, "device") \cup RequestsOf(log, "device_code") :
                  \E g \in G : g < i
            /\ args.auth_flow = "OFFLINE" =>
                  \A i \in RequestsOf(log, "refresh_token") : \E g \in G : g < i
            /\ R # {} /\ G = {} => result.exc = NoExc

\* all three tiers ran and the third one succeeded
C6_Witness ==
    /\ pc = "ready" /\ IsCall(result.op) /\ result.exc = NoExc
    /\ args.auth_flow = "DEVICE"
    /\ CallsOf(log, "perform_token_refresh") # {}
    /\ CallsOf(log, "get_tokens") # {}
    /\ RequestsOf(log, "device") # {}
    /\ \E i \in RequestsOf(log, "refresh_token") : i < Min(CallsOf(log, "get_tokens"))

----------------------------------------------------------------------------
(* C7: a get_token or get_auth call of a constructed manager raises exactly *)
(* when the validation, the refresh tier and the new token generation all   *)
(* failed, and the message of the exception then ends with the message of   *)
(* the failure of the new token generation.                                 *)

Last(lg) == lg[Len(lg)]

AllTiersFailed(lg) ==
    /\ Len(lg) >= 1 /\ lg[1].t = "validate" /\ lg[1].v # ""
    /\ CallsOf(lg, "perform_token_refresh") # {}
    /\ CallsOf(lg, "get_tokens") # {}
    /\ Last(lg) # EvValidate("")

\* str() of the exception the last event of the log stands for
LastFailure(lg) ==
    LET e == Last(lg)
        before == lg[Len(lg) - 1]
    IN  IF e.t = "validate"
        THEN (IF e.v = "AssertionError" THEN "" ELSE e.v)
        ELSE IF e.t \in {"sleep", "print"}
        THEN "Failed to retrieve tokens from device authorisation flow!"
        ELSE IF before.v = "device"
        THEN "'device_code'"
        ELSE IF before.v = "device_code"
        THEN (IF PayloadAt(lg, Len(lg)).empty THEN ""
              ELSE "Token payload did not include access or refresh token: Error: ")
        ELSE IF e.v # "200"
        THEN "Something went wrong during offline token refresh. Status code: " \o e.v
        ELSE "Offline refresh token payload did not include access or refresh token: Error: "

C7_RaisesOnlyWhenAllTiersFail ==
    (pc = "ready" /\ IsCall(result.op)) =>
        /\ result.exc # NoExc <=> AllTiersFailed(log)
        /\ result.exc # NoExc =>
              /\ result.exc.type = "Exception"
              /\ result.exc.cause = LastFailure(log)

\* the device flow of the third tier ended on a terminal error
C7_Witness ==
    /\ pc = "ready" /\ IsCall(result.op) /\ result.exc # NoExc
    /\ RequestsOf(log, "device_code") # {}
    /\ result.exc.cause = "Failed to retrieve tokens from device authorisation flow!"

----------------------------------------------------------------------------
(* C8: a constructor call that names both a storage file and a storage      *)
(* object raises ValueError and no request has been sent, whatever the      *)
(* other arguments are.                                                     *)

BothTargets == args.local_storage_location # None_ /\ args.local_storage_object

C8_BothTargetsRaiseBeforeAnyRequest ==
    (BothTargets /\ pc # "new") =>
        /\ pc = "failed"
        /\ result.exc.type = "ValueError"
        /\ Requests(log) = {}

C8_Witness ==
    /\ BothTargets /\ pc = "failed" /\ result.op = "__init__"
    /\ args.auth_flow = "OFFLINE" /\ args.force_token_refresh

----------------------------------------------------------------------------
(* C9 as written: the script is k authorization_pending answers followed   *)
(* by an answer without error: the poller of the manager sends k + 1        *)
(* requests, sleeps k times for the interval, one sleep between consecutive *)
(* requests, and returns the payload of answer k + 1.                       *)

PendingPrefix(script, k) == \A i \in 1..k : script[i].error = PENDING

SuccessAfter(script, k) ==
    /\ k + 1 <= Len(script)
    /\ PendingPrefix(script, k)
    /\ script[k + 1].error = ""

FatalAfter(script, k) ==
    /\ k + 1 <= Len(script)
    /\ PendingPrefix(script, k)
    /\ script[k + 1].error \notin {"", PENDING}

PollerSucceeds(out, script, interval, k) ==
    /\ out.kind = "return"
    /\ out.ret = {script[k + 1]}
    /\ Cardinality(Requests(out.log)) = k + 1
    /\ Cardinality(Sleeps(out.log)) = k
    /\ \A i \in Sleeps(out.log) : out.log[i].n = interval
    /\ \A i \in Requests(out.log) : i > 1 => out.log[i - 1].t = "sleep"

----------------------------------------------------------------------------
(* C10: the script is k authorization_pending answers followed by an answer *)
(* with any other error: either poller sends k + 1 requests, none after the *)
(* terminal answer, ends, and returns None instead of a payload.            *)

C10_PollerFatalPath ==
    poll_out.impl # "" =>
        \A k \in 0..Len(poll_in.script) :
            FatalAfter(poll_in.script, k) =>
                /\ poll_out.out.kind = "return"
                /\ poll_out.out.ret = {}
                /\ poll_out.out.used = k + 1
                /\ Cardinality(Requests(poll_out.out.log)) = k + 1

\* a terminal error in second place of a script of three answers
C10_Witness ==
    /\ poll_out.impl = "manager"
    /\ Len(poll_in.script) = 3
    /\ FatalAfter(poll_in.script, 1)
    /\ poll_out.out.used = 2
    /\ poll_out.out.ret = {}

----------------------------------------------------------------------------
(* C11 as written: when the device-flow poll of a constructor call or of a  *)
(* get_token/get_auth call ends on an error code E other than               *)
(* authorization_pending, the call raises and the exception names E,        *)
(* whatever the silent flag.                                                *)

\* the last answer to a poll request in the log carries the error E
PollEndedOn(lg, E) ==
    /\ RequestsOf(lg, "device_code") # {}
    /\ LET i == CHOOSE j \in RequestsOf(lg, "device_code") :
                    \A k \in RequestsOf(lg, "device_code") : k <= j
       IN  i < Len(lg) /\ lg[i + 1].t = "response" /\ PayloadAt(lg, i + 1).error = E

\* E is the message of the exception or the text interpolated into it
Names(e, E) == e.type # "" /\ (e.msg = E \/ e.cause = E)

C11_Original ==
    \A E \in TerminalErrors :
        (result.op # "" /\ PollEndedOn(log, E)) => Names(result.exc, E)

----------------------------------------------------------------------------
(* C12: DEVICE mode, end to end. A constructor call that finds no entry for *)
(* its stage (store empty, unparsable or missing) and reaches get_tokens    *)
(* starts a device flow. When the poll is answered with a pair that         *)
(* validates, the constructor returns, the manager holds that pair and the  *)
(* store reloads to an entry of the stage with that access token; a         *)
(* get_token call made while the token validates returns that access token. *)

\* the answer to the last poll request in the log
LastPollAnswer(lg) ==
    LET polls == RequestsOf(lg, "device_code")
        i == CHOOSE j \in polls : \A k \in polls : k <= j
    IN  {PayloadAt(lg, i + 1)}

\* the pair the operator's approval produced, {} when the poll did not end so
ApprovedPair(lg, t) ==
    IF RequestsOf(lg, "device_code") = {} THEN {}
    ELSE UNION {IF Validates(NewPair(p), t) THEN NewPair(p) ELSE {} : p \in LastPollAnswer(lg)}

NoCachedEntry == args.auth_flow = "DEVICE" /\ Reload(store, args.stage) = {}

C12_DeviceFlowEndToEnd ==
    [][/\ (pc = "new" /\ NoCachedEntry /\ CallsOf(log', "get_tokens") # {})
            => /\ RequestsOf(log', "device") # {}
               /\ ApprovedPair(log', now) # {}
                    => /\ pc' = "ready" /\ result'.exc.type = ""
                       /\ tokens' = ApprovedPair(log', now)
                       /\ Reload(store', args.stage) = ApprovedPair(log', now)
       /\ (CallStep /\ result.op = "__init__" /\ result'.op = "get_token"
             /\ ApprovedPair(log, now) # {})
            => /\ result'.exc.type = ""
               /\ TokenReturned(result') = {x.access_token : x \in ApprovedPair(log, now)}
               /\ TokenReturned(result') # {}
      ]_vars

C12_Witness ==
    /\ Constructed
    /\ args.auth_flow = "DEVICE"
    /\ ApprovedPair(log, now) # {}
    /\ tokens = ApprovedPair(log, now)
    /\ Reload(store, args.stage) = tokens

----------------------------------------------------------------------------
(* C13: OFFLINE mode: every request with grant type refresh_token that the  *)
(* constructor or a get_token/get_auth call sends carries the configured    *)
(* offline token, never a refresh token from the cache or from an earlier   *)
(* answer of the server.                                                    *)

C13_OfflineRequestsCarryOfflineToken ==
    (args.auth_flow = "OFFLINE" /\ pc \in {"new", "ready", "failed"})
        => \A i \in RequestsOf(log, "refresh_token") : log[i].w = args.offline_token

\* a get_token or get_auth call went through the refresh tier, which sent
\* nothing, and the re-authorization sent the offline token
C13_Witness ==
    /\ args.auth_flow = "OFFLINE"
    /\ IsCall(result.op)
    /\ CallsOf(log, "perform_token_refresh") # {}
    /\ \E i \in RequestsOf(log, "refresh_token") : log[i].w = "offline-token"

----------------------------------------------------------------------------
(* C14: the constructor raises the error about the mode and the offline     *)
(* token only when they are inconsistent (OFFLINE without an offline token, *)
(* DEVICE with one); when they are inconsistent the constructor always      *)
(* fails with a ValueError, which is that error unless both storage targets *)
(* were named, and no request has been sent.                                *)

Inconsistent ==
    \/ args.auth_flow = "OFFLINE" /\ args.offline_token \in {None_, ""}
    \/ args.auth_flow = "DEVICE" /\ args.offline_token \notin {None_, ""}

ModeTokenError(e) ==
    /\ e.type = "ValueError"
    /\ e.msg \in {"You are using an offline auth flow but did not provide an offline token!",
                  "You provided an offline token but specified the DEVICE auth flow. "
                  \o "The DEVICE auth flow does not require an offline token."}

C14_ModeTokenMismatchRaises ==
    result.op = "__init__" =>
        /\ Inconsistent => /\ pc = "failed"
                           /\ result.exc.type = "ValueError"
                           /\ ~BothTargets => ModeTokenError(result.exc)
                           /\ Requests(log) = {}
        /\ ModeTokenError(result.exc) => Inconsistent

C14_Witness ==
    /\ result.op = "__init__"
    /\ Inconsistent
    /\ args.auth_flow = "DEVICE"
    /\ ModeTokenError(result.exc)
    /\ Requests(log) = {}

----------------------------------------------------------------------------
(* C15: a constructor call whose stage name is not TEST, DEV, STAGE or PROD *)
(* fails with a ValueError and has sent no request; a constructor call that *)
(* returns has made its stage name self.stage, and no later call or lapse   *)
(* of time changes self.stage.                                              *)

StageNames == {"TEST", "DEV", "STAGE", "PROD"}

C15_StageIsCheckedAndKept ==
    [][/\ (pc = "new" /\ pc' # "new" /\ args.stage \notin StageNames)
            => /\ pc' = "failed"
               /\ result'.exc.type = "ValueError"
               /\ Requests(log') = {}
       /\ (pc = "new" /\ pc' = "ready")
            => /\ args.stage \in StageNames
               /\ self_stage' = args.stage
       /\ pc = "ready" => self_stage' = self_stage /\ self_stage = args.stage
      ]_vars

\* the stage name is the only thing wrong with the call
C15_Witness ==
    /\ pc = "failed"
    /\ args.stage \notin StageNames
    /\ ~BothTargets
    /\ result.exc.type = "ValueError"
    /\ result.exc.msg = "Stage BOGUS is not one of [<Stage.TEST: 'TEST'>, "
                        \o "<Stage.DEV: 'DEV'>, <Stage.STAGE: 'STAGE'>, <Stage.PROD: 'PROD'>]."
    /\ Requests(log) = {}

----------------------------------------------------------------------------
(* C16: a constructor call with force_token_refresh that passes the         *)
(* configuration checks resets the store before it reads it. When it goes   *)
(* on to get_tokens it sends the request of a new flow (device              *)
(* registration, or a refresh grant with the offline token) and none with a *)
(* cached refresh token; when it returns, the pair in memory is the one the *)
(* last answer of the server carried, the stage of the manager reloads to   *)
(* it and every other stage reloads to nothing.                             *)

StoreEvents(lg) == {i \in 1..Len(lg) : lg[i].t = "store"}

ResetComesFirst(lg) ==
    /\ StoreEvents(lg) # {}
    /\ lg[Min(StoreEvents(lg))].v = "reset"

\* the pair carried by the last answer in the log
LastAnswerPair(lg) ==
    IF Responses(lg) = {} THEN {}
    ELSE LET i == CHOOSE j \in Responses(lg) : \A k \in Responses(lg) : k <= j
             p == PayloadAt(lg, i)
         IN  {[access_token |-> x, refresh_token |-> p.refresh_token] : x \in p.access_token}

ForcedStep == pc = "new" /\ pc' # "new" /\ args.force_token_refresh /\ Requests(log') # {}

C16_ForceRefreshStartsAfresh ==
    [][ForcedStep =>
          /\ ResetComesFirst(log')
          /\ CallsOf(log', "get_tokens") # {} =>
                /\ FreshFlow(log', args)
                /\ \A i \in RequestsOf(log', "refresh_token") : log'[i].w = args.offline_token
          /\ pc' = "ready" =>
                /\ tokens' # {}
                /\ tokens' = IF args.auth_flow = "OFFLINE"
                             THEN WithoutRefresh(LastAnswerPair(log'))
                             ELSE LastAnswerPair(log')
                /\ Reload(store', args.stage) = tokens'
                /\ \A s \in StageNames \ {args.stage} : Reload(store', s) = {}
      ]_vars

C16_Witness ==
    /\ Constructed
    /\ args.force_token_refresh
    /\ ResetComesFirst(log)
    /\ Reload(store, args.stage) = tokens
    /\ \A s \in StageNames \ {args.stage} : Reload(store, s) = {}

----------------------------------------------------------------------------
(* C17: when the store is missing, does not parse, or holds nothing for the *)
(* stage of the manager, the constructor call that reads it validates       *)
(* nothing from it and goes straight from the read to the request of a new  *)
(* flow (device registration, or a refresh grant with the offline token);   *)
(* a failure of the call, if any, is a failure of that flow.                *)

NothingCached ==
    \/ store.kind \in {"missing", "unparsable"}
    \/ args.stage \notin DOMAIN store.stages
    \/ store.stages[args.stage] = {}

\* the event after the first read of the store is the request that opens a flow
ReadThenFlow(lg, a) ==
    /\ StoreEvents(lg) # {}
    /\ LET i == Min(StoreEvents(lg))
       IN  /\ lg[i].v = "read"
           /\ i < Len(lg)
           /\ lg[i + 1].t = "request"
           /\ IF a.auth_flow = "DEVICE"
              THEN lg[i + 1].v = "device"
              ELSE lg[i + 1].v = "refresh_token" /\ lg[i + 1].w = a.offline_token

C17_UnusableStoreMeansNoCachedTokens ==
    [][(pc = "new" /\ ~args.force_token_refresh /\ NothingCached
          /\ CallsOf(log', "get_tokens") # {})
        => /\ ReadThenFlow(log', args)
           /\ \A i \in 1..Len(log') : log'[i].t # "validate"
           /\ pc' = "failed" => result'.exc.type \in {"Exception", "KeyError", "AssertionError"}
      ]_vars

\* constructed by a new flow on a store that was missing, did not parse or
\* was empty (a parsed DEV entry would still be there)
C17_Witness ==
    /\ Constructed
    /\ ~args.force_token_refresh
    /\ ReadThenFlow(log, args)
    /\ \A i \in 1..Len(log) : log[i].t # "validate"
    /\ tokens # {}
    /\ Reload(store, "DEV") = {}

----------------------------------------------------------------------------
(* C18: the file backend and the object backend are observationally         *)
(* equivalent. From every reachable state of the manager and every pair of  *)
(* store contents that are logically equal to its store (a stage that is    *)
(* absent, null, or lost in a content that does not parse counting as       *)
(* empty), each operation - the constructor, get_token, reset_storage,      *)
(* retrieve_local_tokens, update_local_storage - run on a file and on an    *)
(* object gives, for the same answers of the server, the same requests,     *)
(* the same exception or value, the same pair in memory and logically equal *)
(* store contents. This is the step of the side-by-side run: equal before,  *)
(* equal after. Every content of either backend is compared with the same   *)
(* one, a file that lists all four stages, so any two of them agree.        *)

Logical(st) == [s \in StageNames |-> Reload(st, s)]

\* contents of a file that are logically equal to st
FileContents(st) ==
    {Store("parsed", Logical(st)),
     Store("parsed", [s \in {x \in StageNames : Reload(st, x) # {}} |-> Reload(st, s)])}
    \cup IF \A s \in StageNames : Reload(st, s) = {}
         THEN {Store("unparsable", [s \in {} |-> {}]), Store("missing", [s \in {} |-> {}])}
         ELSE {}

\* contents of a storage object that are logically equal to st
ObjectContents(st) == {c \in FileContents(st) : c.kind # "missing"}

OnFile(a) == [a EXCEPT !.local_storage_object = FALSE]
OnObject(a) == [a EXCEPT !.local_storage_object = TRUE, !.local_storage_location = None_]

\* what can be seen of a manager after an operation
\* the log without what became of the local variable "existing"
SeenLog(lg) == [i \in 1..Len(lg) |-> IF lg[i].t = "store" THEN [lg[i] EXCEPT !.w = ""] ELSE lg[i]]

Seen(m) == [tokens |-> m.tokens, public_key |-> m.public_key, log |-> SeenLog(m.log),
            stages |-> Logical(m.store)]
SeenOf(outcomes) == {[o EXCEPT !.m = Seen(o.m)] : o \in outcomes}

Held(st) == [tokens |-> tokens, store |-> st, public_key |-> public_key,
             stage |-> self_stage, log |-> <<>>]

\* the content every other one is compared with: all four stages on a file
Canonical(st) == Store("parsed", Logical(st))

C18_BackendsAreEquivalent ==
    /\ (pc = "new" /\ ~BothTargets) =>
          LET base == SeenOf(init(OnFile(args), Canonical(store), now))
          IN  /\ \A f \in FileContents(store) :
                     SeenOf(init(OnFile(args), f, now)) = base
              /\ \A o \in ObjectContents(store) :
                     SeenOf(init(OnObject(args), o, now)) = base
    /\ (pc = "ready" /\ result.op \in {"", "__init__"}) =>
          LET c == Canonical(store)
              token == SeenOf(get_token(Held(c), OnFile(args), now))
              reset == Seen(reset_storage(Held(c), OnFile(args)))
              update == Seen(update_local_storage(Held(c), OnFile(args), self_stage))
              retrieve == SeenOf(retrieve_local_tokens(Held(c), OnFile(args), self_stage, now))
          IN  /\ \A f \in FileContents(store) :
                     /\ SeenOf(get_token(Held(f), OnFile(args), now)) = token
                     /\ Seen(reset_storage(Held(f), OnFile(args))) = reset
                     /\ Seen(update_local_storage(Held(f), OnFile(args), self_stage)) = update
                     /\ SeenOf(retrieve_local_tokens(Held(f), OnFile(args), self_stage, now))
                           = retrieve
              /\ \A o \in ObjectContents(store) :
                     /\ SeenOf(get_token(Held(o), OnObject(args), now)) = token
                     /\ Seen(reset_storage(Held(o), OnObject(args))) = reset
                     /\ Seen(update_local_storage(Held(o), OnObject(args), self_stage)) = update
                     /\ SeenOf(retrieve_local_tokens(Held(o), OnObject(args), self_stage, now))
                           = retrieve

\* a manager on a storage object whose reset left an empty dict, where the
\* file holds four null stages, and which then wrote its stage
C18_Witness ==
    /\ Constructed
    /\ args.local_storage_object
    /\ args.force_token_refresh
    /\ Wrote(log)
    /\ Reload(store, args.stage) = tokens
    /\ tokens # {}

----------------------------------------------------------------------------
(* C19: the poller has no bound of its own on the number of requests. It    *)
(* never stops after an authorization_pending answer, however many requests *)
(* it has sent, and after each such answer it sends the next request; once  *)
(* the server gives any other answer (tokens, a terminal error, an empty    *)
(* object) the poller ends, by returning or by raising.                     *)

PollEnded == pc \in {"returned", "raised"}
Answered == poll_in.script # <<>>
PendingAnswered == Answered /\ poll_in.script[1].error = PENDING
OtherAnswered == Answered /\ poll_in.script[1].error # PENDING

C19_PollsUntilServerEndsIt ==
    /\ [](PollEnded => OtherAnswered)
    /\ (pc = "sleep" /\ PendingAnswered) ~> (pc = "while")
    /\ OtherAnswered ~> PollEnded

\* the poller ended on a terminal error after more requests than are counted
C19_Witness ==
    /\ pc = "returned"
    /\ poll_out.out.used >= MaxPolls
    /\ poll_out.out.ret = {}
    /\ poll_in.script[1].error \in TerminalErrors

----------------------------------------------------------------------------
(* C20 as written: in DEVICE mode, after a constructor call that returned   *)
(* and after every get_token or get_auth call that returned, the pair in    *)
(* memory has an access token and a refresh token, also when the pair was   *)
(* adopted from the cache.                                                  *)

HasBothTokens(pair) ==
    /\ pair # {}
    /\ \A x \in pair : x.refresh_token \notin {None_, ""}

C20_Original ==
    (args.auth_flow = "DEVICE" /\ pc = "ready" /\ result.op # "" /\ result.exc.type = "")
        => HasBothTokens(tokens)

----------------------------------------------------------------------------
(* C21: OFFLINE mode: the pair the manager holds after a constructor call   *)
(* or a get_token/get_auth call has no refresh token, although the answer   *)
(* of the server carried one: the pair in memory is the entry that          *)
(* update_local_storage strips.                                             *)

C21_OfflinePairHasNoRefreshToken ==
    (args.auth_flow = "OFFLINE" /\ pc = "ready")
        => /\ tokens # {}
           /\ \A x \in tokens : x.refresh_token = None_

\* a re-authorization whose answer carried a refresh token
C21_Witness ==
    /\ args.auth_flow = "OFFLINE"
    /\ IsCall(result.op)
    /\ result.exc.type = ""
    /\ CallsOf(log, "get_tokens") # {}
    /\ \E x \in LastAnswerPair(log) : x.refresh_token = "r1"
    /\ tokens = WithoutRefresh(LastAnswerPair(log))

----------------------------------------------------------------------------
(* C22: a constructor call that passes the configuration checks sends one   *)
(* request for the public key, before it reads the store and before any     *)
(* other request; a constructor call that returns holds the key. No         *)
(* get_token or get_auth call sends such a request or changes the key, and  *)
(* what the store holds are pairs of access token and refresh token only.   *)

OnlyPairsStored(st) ==
    \A s \in DOMAIN st.stages : \A x \in st.stages[s] :
        DOMAIN x = {"access_token", "refresh_token"}

KeyFetchedFirst(lg) ==
    /\ Cardinality(RequestsOf(lg, "public_key")) = 1
    /\ \A i \in RequestsOf(lg, "public_key") :
          /\ \A j \in Requests(lg) : i <= j
          /\ \A j \in StoreEvents(lg) : lg[j].v = "read" => i < j

C22_PublicKeyFetchedOnce ==
    [][/\ (pc = "new" /\ pc' # "new" /\ (Requests(log') # {} \/ pc' = "ready"))
            => /\ KeyFetchedFirst(log')
               /\ pc' = "ready" => public_key' # None_
       /\ pc = "ready" => public_key' = public_key
       /\ CallStep => RequestsOf(log', "public_key") = {}
       /\ OnlyPairsStored(store')
      ]_vars

\* a call that went through refresh and new token generation with the key
\* fetched by the constructor
C22_Witness ==
    /\ IsCall(result.op)
    /\ CallsOf(log, "get_tokens") # {}
    /\ Requests(log) # {}
    /\ RequestsOf(log, "public_key") = {}
    /\ public_key # None_

----------------------------------------------------------------------------
(* C23: when the request for the public key ends in an HTTP error, a        *)
(* connection error or a timeout, the constructor raises that error, and    *)
(* the request for the key is the only request it has sent.                 *)

KeyFailure(lg) ==
    {lg[i + 1].v : i \in {j \in RequestsOf(lg, "public_key") :
                             j < Len(lg) /\ lg[j + 1].t = "response" /\ lg[j + 1].v # "200"}}

C23_KeyFailureIsNotRetried ==
    (result.op = "__init__" /\ KeyFailure(log) # {})
        => /\ pc = "failed"
           /\ KeyFailure(log) = {result.exc.type}
           /\ Cardinality(Requests(log)) = 1

C23_Witness ==
    /\ result.op = "__init__"
    /\ pc = "failed"
    /\ KeyFailure(log) = {"Timeout"}
    /\ result.exc.type = "Timeout"
    /\ Cardinality(Requests(log)) = 1

----------------------------------------------------------------------------
(* C24: the silent flag changes nothing but the output. At every reachable  *)
(* state, the constructor, get_token and get_auth run with silent set and   *)
(* with silent unset give, for the same answers of the server, the same     *)
(* sequence of requests, sleeps, validations and store accesses, the same   *)
(* exception or value, the same pair in memory and the same store content.  *)

NoPrints(lg) == SelectSeq(lg, LAMBDA e : e.t # "print")
Unprinted(outcomes) == {[o EXCEPT !.m.log = NoPrints(o.m.log)] : o \in outcomes}

Loud(a) == [a EXCEPT !.silent = FALSE]
Quiet(a) == [a EXCEPT !.silent = TRUE]

HeldNow == Held(store)

C24_SilentChangesOnlyOutput ==
    /\ pc = "new" =>
          Unprinted(init(Loud(args), store, now)) = Unprinted(init(Quiet(args), store, now))
    /\ (pc = "ready" /\ result.op \in {"", "__init__"}) =>
          /\ Unprinted(get_token(HeldNow, Loud(args), now))
                = Unprinted(get_token(HeldNow, Quiet(args), now))
          /\ Unprinted(get_auth(HeldNow, Loud(args), now))
                = Unprinted(get_auth(HeldNow, Quiet(args), now))

\* a silent manager whose poll ended on an error that was not printed
C24_Witness ==
    /\ args.silent
    /\ IsCall(result.op)
    /\ PollEndedOn(log, "expired_token")
    /\ \A i \in 1..Len(log) : ~(log[i].t = "print" /\ log[i].v = "Failed due to")
    /\ result.exc.type = "Exception"

----------------------------------------------------------------------------
(* C25: DEVICE mode without force_token_refresh: a constructor call that    *)
(* reaches get_tokens sends a request to the device endpoint only when the  *)
(* cache gives no usable pair. When the cached access token validates, or   *)
(* it does not and the refresh grant sent with the cached refresh token is  *)
(* answered with a pair that validates, the constructor returns with a pair *)
(* that validates and no request to the device endpoint has been sent;      *)
(* otherwise the device flow is started.                                    *)

\* the refresh grant with the refresh token of the cached pair was answered
\* with a pair that validates
CacheRefreshed(lg, cached, t) ==
    \E i \in RequestsOf(lg, "refresh_token") :
        /\ \E x \in cached : lg[i].w = x.refresh_token
        /\ i < Len(lg) /\ lg[i + 1].t = "response" /\ lg[i + 1].v = "200"
        /\ Validates(NewPair(PayloadAt(lg, i + 1)), t)

CacheUsable(lg, cached, t) == Validates(cached, t) \/ CacheRefreshed(lg, cached, t)

C25_DeviceFlowOnlyWithoutUsableCache ==
    [][(pc = "new" /\ args.auth_flow = "DEVICE" /\ ~args.force_token_refresh
          /\ CallsOf(log', "get_tokens") # {})
        => IF CacheUsable(log', Reload(store, args.stage), now)
           THEN /\ pc' = "ready"
                /\ RequestsOf(log', "device") = {}
                /\ RequestsOf(log', "device_code") = {}
                /\ Validates(tokens', now)
           ELSE RequestsOf(log', "device") # {}
      ]_vars

\* constructed from a cached pair that had expired and was refreshed
C25_Witness ==
    /\ Constructed
    /\ args.auth_flow = "DEVICE"
    /\ ~args.force_token_refresh
    /\ RequestsOf(log, "device") = {}
    /\ \E i \in RequestsOf(log, "refresh_token") :
          log[i].w = "r0" /\ log[i + 1].v = "200" /\ tokens = NewPair(PayloadAt(log, i + 1))

----------------------------------------------------------------------------
(* C26: with one manager on the store, whenever the manager is not inside a *)
(* call - after the constructor returned and after every get_token or       *)
(* get_auth call, whether it returned or raised - the store reloads, for    *)
(* the stage of the manager, to the pair the manager holds: same access     *)
(* token, same refresh token (none on both sides in OFFLINE mode).          *)

C26_CacheCoherence ==
    pc = "ready" =>
        /\ tokens # {}
        /\ Reload(store, args.stage) = tokens

\* a call that replaced the pair, wrote it, and raised in the end
C26_Witness ==
    /\ IsCall(result.op)
    /\ result.exc.type # ""
    /\ Wrote(log)
    /\ RequestsOf(log, "refresh_token") # {}
    /\ Reload(store, args.stage) = tokens

----------------------------------------------------------------------------
(* C27: the pairs cached under stages other than the stage of the manager   *)
(* stay out of its way: after the constructor and after any call the pair   *)
(* in memory has none of their access tokens, the value returned is none of *)
(* them, and no request carries one of their refresh tokens.                *)

OtherStagePairs(st, stage) == UNION {Reload(st, s) : s \in StageNames \ {stage}}

C27_StagePartitioning ==
    [][(pc \in {"new", "ready"} /\ args.stage \in StageNames) =>
          \A y \in OtherStagePairs(store, args.stage) :
              /\ \A x \in tokens' : x.access_token # y.access_token
              /\ y.access_token \notin TokenReturned(result')
              /\ y.refresh_token # None_ =>
                    \A i \in Requests(log') : log'[i].w # y.refresh_token
      ]_vars

\* constructed by a new flow while another stage held a pair that validates,
\* and that pair is still there
C27_Witness ==
    /\ Constructed
    /\ args.auth_flow = "DEVICE"
    /\ RequestsOf(log, "device") # {}
    /\ \E y \in OtherStagePairs(store, args.stage) :
          /\ Validates({y}, now)
          /\ y.refresh_token = "r9"
          /\ \A x \in tokens : x.access_token # y.access_token

----------------------------------------------------------------------------
(* C28: OFFLINE mode: a constructor call or a get_token/get_auth call that  *)
(* gets to get_tokens while the cached access token is absent or does not   *)
(* validate sends one request to the token endpoint, a refresh grant with   *)
(* the offline token. When the answer is not a 200, the call raises, the    *)
(* manager holds the pair it held before, and the store is as it was (as    *)
(* the reset left it, for a constructor call with force_token_refresh).     *)

TokenEndpointRequests(lg) ==
    {i \in Requests(lg) : lg[i].v \in {"refresh_token", "device_code"}}

\* what get_tokens finds in the store for the stage of the manager
CachedAtRead ==
    IF pc = "new" /\ args.force_token_refresh THEN {} ELSE Reload(store, args.stage)

C28_OfflineReauthorizationIsOneRequest ==
    [][((pc = "new" \/ CallStep) /\ args.auth_flow = "OFFLINE"
          /\ CallsOf(log', "get_tokens") # {}
          /\ ~Validates(CachedAtRead, now))
        => /\ Cardinality(TokenEndpointRequests(log')) = 1
           /\ RequestsOf(log', "device") = {}
           /\ \A i \in TokenEndpointRequests(log') :
                 /\ log'[i].v = "refresh_token"
                 /\ log'[i].w = args.offline_token
                 /\ log'[i + 1].t = "response"
                 /\ log'[i + 1].v # "200" =>
                       /\ result'.exc.type = "Exception"
                       /\ tokens' = tokens
                       /\ IF pc = "new" /\ args.force_token_refresh
                          THEN \A s \in StageNames : Reload(store', s) = {}
                          ELSE store' = store
      ]_vars

\* a call whose offline refresh was refused
C28_Witness ==
    /\ args.auth_flow = "OFFLINE"
    /\ IsCall(result.op)
    /\ result.exc.type = "Exception"
    /\ Cardinality(Requests(log)) = 1
    /\ \E i \in RequestsOf(log, "refresh_token") :
          log[i].w = "offline-token" /\ log[i + 1].v = "400"
    /\ Reload(store, args.stage) = tokens

----------------------------------------------------------------------------
(* C29: when a get_token or get_auth call returns, the value is the access  *)
(* token of the pair the manager holds, that token validates, and the last  *)
(* validation of the call succeeded and came after the last write of the    *)
(* store, that is after the last replacement of the pair.                   *)

Validations(lg) == {i \in 1..Len(lg) : lg[i].t = "validate"}
Writes(lg) == {i \in 1..Len(lg) : lg[i].t = "store" /\ lg[i].v = "write"}
Max(S) == CHOOSE i \in S : \A j \in S : j <= i

C29_ReturnedTokenWasValidated ==
    [][(CallStep /\ result'.exc.type = "") =>
          /\ TokenReturned(result') = {x.access_token : x \in tokens'}
          /\ TokenReturned(result') # {}
          /\ Validates(tokens', now)
          /\ Validations(log') # {}
          /\ log'[Max(Validations(log'))].v = ""
          /\ \A i \in Writes(log') : i < Max(Validations(log'))
      ]_vars

\* returned after the new token generation replaced the pair
C29_Witness ==
    /\ IsCall(result.op)
    /\ result.exc.type = ""
    /\ CallsOf(log, "get_tokens") # {}
    /\ Writes(log) # {}
    /\ RequestsOf(log, "device") # {}
    /\ TokenReturned(result) = {x.access_token : x \in tokens}

----------------------------------------------------------------------------
(* C30 as written: in every run of either poller the number of sleeps is    *)
(* the number of authorization_pending answers received, so that no sleep   *)
(* follows an answer with a terminal error.                                 *)

PendingAnswers(lg) ==
    {i \in Responses(lg) : \E p \in lg[i].p : p.error = PENDING}

C30_Original ==
    poll_out.impl # "" =>
        Cardinality(Sleeps(poll_out.out.log))
            = Cardinality(PendingAnswers(poll_out.out.log))

----------------------------------------------------------------------------
(* C31 as written: DEVICE mode: within one get_token or get_auth call at    *)
(* most one refresh-grant request is sent; when the refresh tier fails, the *)
(* new token generation goes to a device flow without a second refresh      *)
(* grant built from the cached pair.                                        *)

RefreshGrants(lg) == RequestsOf(lg, "refresh_token")

C31_Original ==
    (args.auth_flow = "DEVICE" /\ IsCall(result.op)) => Cardinality(RefreshGrants(log)) <= 1

----------------------------------------------------------------------------
(* C32: in the refresh tier and in the new token generation of get_token    *)
(* and get_auth, a pair obtained from the server is written to the store,   *)
(* and held in memory, before it is validated: in the log the answer that   *)
(* carries the pair is followed by the read and the write of the store and  *)
(* only then by the validation. When that validation fails and nothing is   *)
(* written afterwards, the call raises and leaves the pair that failed as   *)
(* the pair in memory and as the entry of the stage, in place of the pair   *)
(* the call started with.                                                   *)

\* the pair the manager keeps of a payload: in OFFLINE mode without refresh token
KeptPair(p) == IF args.auth_flow = "OFFLINE" THEN WithoutRefresh(NewPair(p)) ELSE NewPair(p)

\* at i the store is read and written, at i + 2 the pair of p is validated
SavedThenValidated(lg, i, p, t) ==
    /\ Len(lg) >= i + 2
    /\ lg[i].t = "store" /\ lg[i].v = "read"
    /\ lg[i + 1].t = "store" /\ lg[i + 1].v = "write"
    /\ lg[i + 2].t = "validate"
    /\ lg[i + 2].v = "" <=> Validates(NewPair(p), t)

\* the call ended with the pair of p in memory and in the store, and raised
\* exactly when that pair does not validate
EndedWith(p) ==
    /\ tokens' = KeptPair(p)
    /\ Reload(store', args.stage) = tokens'
    /\ result'.exc.type = "Exception" <=> ~Validates(tokens', now)

C32_PersistedBeforeValidated ==
    [][CallStep =>
          /\ Len(log') >= 1 /\ log'[1].t = "validate"
          /\ log'[1].v = "ExpiredSignatureError" => Expired(tokens, now)
          \* the refresh tier
          /\ \A c \in CallsOf(log', "perform_token_refresh") :
                (/\ Len(log') >= c + 2
                 /\ log'[c + 2].t = "response" /\ log'[c + 2].v = "200"
                 /\ NewPair(PayloadAt(log', c + 2)) # {})
                => /\ SavedThenValidated(log', c + 3, PayloadAt(log', c + 2), now)
                   /\ Writes(log') = {c + 4} => /\ Len(log') = c + 5 \/ result'.exc.type = "Exception"
                                                /\ EndedWith(PayloadAt(log', c + 2))
          \* the new token generation: the device flow, the offline refresh
          /\ \A r \in Responses(log') :
                (/\ log'[r].v = "200"
                 /\ \/ log'[r - 1].v = "device_code"
                    \/ /\ log'[r - 1].v = "refresh_token"
                       /\ args.auth_flow = "OFFLINE"
                 /\ PairOf(PayloadAt(log', r)) # {}
                 /\ PayloadAt(log', r).refresh_token # None_)
                => /\ SavedThenValidated(log', r + 1, PayloadAt(log', r), now)
                   /\ Len(log') = r + 3
                   /\ EndedWith(PayloadAt(log', r))
      ]_vars

\* a call that started with an expired pair, was answered by the refresh
\* grant with a wrongly signed pair, saved it, and raised: the wrongly signed
\* pair is held and stored
C32_Witness ==
    /\ IsCall(result.op)
    /\ result.exc.type = "Exception"
    /\ log[1].t = "validate" /\ log[1].v = "ExpiredSignatureError"
    /\ \E c \in CallsOf(log, "perform_token_refresh") :
          /\ Writes(log) = {c + 4}
          /\ log[c + 5].t = "validate" /\ log[c + 5].v = "JWTError"
          /\ tokens = NewPair(PayloadAt(log, c + 2))
    /\ \A x \in tokens : ~x.access_token.sig
    /\ tokens # {}
    /\ Reload(store, args.stage) = tokens

----------------------------------------------------------------------------
(* C33: when the content of the store is there and does not parse as a      *)
(* whole, update_local_storage writes a fresh structure: afterwards the     *)
(* content parses, the stage of the manager reloads to the pair the manager *)
(* holds, and every other stage reloads to nothing, whatever well-formed    *)
(* entries the content held for it.                                         *)

\* the well-formed entry a content holds for a stage, parsable as a whole or not
EntryHeld(st, s) == IF s \in DOMAIN st.stages THEN st.stages[s] ELSE {}

UpdateOfUnparsable ==
    pc = "store" /\ result'.op = "update_local_storage" /\ store.kind = "unparsable"

C33_UnparsableStoreIsReplaced ==
    [][UpdateOfUnparsable =>
          /\ store'.kind = "parsed"
          /\ log'[1].t = "store" /\ log'[1].v = "read" /\ log'[1].w = "fresh"
          /\ Reload(store', args.stage) = tokens'
          /\ \A s \in StageNames \ {args.stage} :
                Reload(store', s) = {} /\ EntryHeld(store', s) = {}
      ]_vars

\* the update found a storage object that did not parse and wrote a fresh
\* structure: PROD holds the pair of the manager, DEV holds nothing
C33_Witness ==
    /\ pc = "store" /\ result.op = "update_local_storage"
    /\ args.local_storage_object /\ args.stage = "PROD"
    /\ log[1].w = "fresh"
    /\ store.kind = "parsed"
    /\ Reload(store, "PROD") = tokens /\ tokens # {}
    /\ \A s \in StageNames \ {"PROD"} : Reload(store, s) = {}

----------------------------------------------------------------------------
(* C34: a constructor call whose arguments are wrong - both storage         *)
(* targets, OFFLINE without offline token, DEVICE with offline token, a     *)
(* stage name that is no stage - raises ValueError before the store is      *)
(* touched: the content of the store is what it was, nothing was read,      *)
(* written or reset and no request was sent, with force_token_refresh set   *)
(* or not. A constructor call that raises ValueError is such a call.        *)

ConfigurationError == BothTargets \/ Inconsistent \/ args.stage \notin StageNames

C34_ConfigurationErrorsLeaveStore ==
    [][pc = "new" =>
          /\ ConfigurationError <=> result'.exc.type = "ValueError"
          /\ ConfigurationError =>
                /\ pc' = "failed"
                /\ store' = store
                /\ StoreEvents(log') = {}
                /\ Requests(log') = {}
                /\ tokens' = {} /\ public_key' = None_
      ]_vars

\* a forced constructor call with a wrong stage name raised and the store
\* still holds the entries of TEST and DEV
C34_Witness ==
    /\ pc = "failed" /\ result.op = "__init__"
    /\ result.exc.type = "ValueError"
    /\ args.force_token_refresh
    /\ args.stage \notin StageNames
    /\ Reload(store, "TEST") # {} /\ Reload(store, "DEV") # {}
    /\ log = <<>>

----------------------------------------------------------------------------
(* C35: a constructor call that fails at the request for the public key     *)
(* leaves the content of the store as it was when force_token_refresh is    *)
(* not set, and leaves it cleared when force_token_refresh is set: the      *)
(* reset is the first event of the call, the request for the key comes      *)
(* after it, and afterwards no stage holds an entry.                        *)

Cleared(st) == \A s \in StageNames : Reload(st, s) = {} /\ EntryHeld(st, s) = {}

C35_KeyFailureAndForcedReset ==
    [][(pc = "new" /\ KeyFailure(log') # {}) =>
          /\ pc' = "failed"
          /\ tokens' = {}
          /\ IF args.force_token_refresh
             THEN /\ Cleared(store')
                  /\ log'[1].t = "store" /\ log'[1].v = "reset"
                  /\ StoreEvents(log') = {1}
                  /\ \A i \in Requests(log') : i > 1
             ELSE /\ store' = store
                  /\ StoreEvents(log') = {}
      ]_vars

\* a forced constructor call on a file: the reset ran, then the request for
\* the key timed out, and the file holds four empty stages
C35_Witness ==
    /\ pc = "failed" /\ result.op = "__init__"
    /\ args.force_token_refresh /\ ~args.local_storage_object
    /\ KeyFailure(log) = {"Timeout"}
    /\ log[1].t = "store" /\ log[1].v = "reset"
    /\ store.kind = "parsed" /\ Cleared(store)

----------------------------------------------------------------------------
(* C36: two managers for different stages on one store, each running        *)
(* update_local_storage once. When the two updates do not interleave, each  *)
(* stage afterwards reloads to the pair of its manager. When both managers  *)
(* have parsed the store before either writes, the stage of the manager     *)
(* that wrote last reloads to its pair and the stage of the manager that    *)
(* wrote first reloads to what the store held before both updates: the      *)
(* entry written first is lost.                                             *)

BothWritten == \A i \in Managers : pc[i] = "written"

\* the first two events are the read and the write of the same manager
OneAfterTheOther == BothWritten /\ log[1].w = log[2].w

\* the first two events are the reads
BothReadFirst == BothWritten /\ log[1].v = "read" /\ log[2].v = "read"

StoredAs(entry) == IF args.auth_flow = "OFFLINE" THEN WithoutRefresh(entry) ELSE entry

C36_SharedStoreLastWriterWins ==
    /\ OneAfterTheOther => \A i \in Managers : Reload(store, self_stage[i]) = tokens[i]
    /\ BothReadFirst =>
          LET first == log[3].w
              last == log[4].w
          IN  /\ log[3].v = "write" /\ log[4].v = "write" /\ first # last
              /\ \A i \in Managers : existing_of[i] = existing_of[last]
              /\ Reload(store, self_stage[last]) = tokens[last]
              /\ Reload(store, self_stage[first])
                    = StoredAs(Reload(existing_of[last], self_stage[first]))

\* DEVICE mode, both parsed an empty store, m1 wrote, then m2 wrote: the
\* stage of m1 holds nothing
C36_Witness ==
    /\ BothReadFirst
    /\ args.auth_flow = "DEVICE"
    /\ log[3].w = "m1" /\ log[4].w = "m2"
    /\ tokens["m1"] # {}
    /\ Reload(store, self_stage["m1"]) = {}
    /\ Reload(store, self_stage["m2"]) = tokens["m2"]

----------------------------------------------------------------------------
(* C37: a 200 answer of the token endpoint that carries no error and lacks  *)
(* the access token or the refresh token makes the acquisition fail without *)
(* touching the pair in memory or the store. For the device flow and the    *)
(* offline refresh the call ends there, raising Exception; for the refresh  *)
(* grant of perform_token_refresh the AssertionError is the next event, and *)
(* for the refresh grant of retrieve_local_tokens the device flow is. No    *)
(* write follows such an answer unless a later answer carries both tokens,  *)
(* and a call in which nothing was written leaves the pair and the store    *)
(* as they were (the store as the reset left it, for a forced constructor   *)
(* call).                                                                   *)

\* a successful answer that lacks one of the two tokens
Deficient(lg, r) ==
    /\ lg[r].t = "response" /\ lg[r].v = "200"
    /\ r > 1 /\ lg[r - 1].t = "request" /\ lg[r - 1].v \in {"refresh_token", "device_code"}
    /\ \E p \in lg[r].p :
          /\ ~p.empty /\ p.error = ""
          /\ p.access_token = {} \/ p.refresh_token = None_

\* a successful answer that carries both tokens
Complete(lg, r) ==
    /\ lg[r].t = "response" /\ lg[r].v = "200"
    /\ \E p \in lg[r].p : p.access_token # {} /\ p.refresh_token # None_

DeficientAnswers(lg) == {r \in 1..Len(lg) : Deficient(lg, r)}

\* what follows the deficient answer at r in a call with arguments a
FailsAt(lg, r, a, exc) ==
    IF lg[r - 1].v = "device_code" \/ a.auth_flow = "OFFLINE"
    THEN r = Len(lg) /\ exc.type = "Exception"
    ELSE /\ r < Len(lg)
         /\ IF r > 2 /\ lg[r - 2].t = "call" /\ lg[r - 2].v = "perform_token_refresh"
            THEN lg[r + 1].t = "except" /\ lg[r + 1].v = "AssertionError"
            ELSE lg[r + 1].t = "request" /\ lg[r + 1].v = "device"

C37_DeficientPayloadChangesNothing ==
    [][((pc = "new" \/ CallStep) /\ DeficientAnswers(log') # {}) =>
          /\ \A r \in DeficientAnswers(log') :
                /\ FailsAt(log', r, args, result'.exc)
                /\ \A w \in Writes(log') :
                      w > r => \E r2 \in (r + 1)..(w - 1) : Complete(log', r2)
          /\ Writes(log') = {} =>
                /\ tokens' = tokens
                /\ IF pc = "new" /\ args.force_token_refresh
                   THEN Cleared(store')
                   ELSE store' = store
      ]_vars

\* a call of a DEVICE manager: the refresh grant and the device flow were
\* both answered without one of the tokens; the call raised, and the manager
\* and the store hold the pair they held
C37_Witness ==
    /\ IsCall(result.op)
    /\ args.auth_flow = "DEVICE"
    /\ result.exc.type = "Exception"
    /\ \E c \in CallsOf(log, "perform_token_refresh") : Deficient(log, c + 2)
    /\ Deficient(log, Len(log)) /\ log[Len(log) - 1].v = "device_code"
    /\ Writes(log) = {}
    /\ tokens # {} /\ Reload(store, args.stage) = tokens

----------------------------------------------------------------------------
(* C38: get_auth and get_token are equivalent. From every state in which a  *)
(* manager can be called, for the same answers of the server, get_auth and  *)
(* get_token send the same requests, leave the same pair in memory and the  *)
(* same store, raise in the same cases with the same exception, and the     *)
(* token of the BearerAuth that get_auth returns is the string get_token    *)
(* returns. Applied to a request, the BearerAuth sets the header            *)
(* authorization to "Bearer " followed by that token, the access token the  *)
(* manager holds.                                                           *)

\* the outcomes of get_auth, the BearerAuth replaced by the token it wraps
TokensWrapped(outcomes) == {[o EXCEPT !.ret = {v.token : v \in o.ret}] : o \in outcomes}

====
